---------------------------- MODULE Spec2Model ----------------------------
(***************************************************************************)
(* Verification model of the voice-agent gateway (backend/app).            *)
(*                                                                         *)
(* Three state machines share one clock:                                   *)
(*   SpecCB   - one CircuitBreaker (core/circuit_breaker.py)               *)
(*   SpecPM   - one ProviderManager with its providers and their circuits  *)
(*              (core/provider_manager.py, services/stt*.py)               *)
(*   SpecTurn - one websocket connection and its VoiceSessionStreaming     *)
(*              orchestrator (websocket.py, core/session_streaming.py)     *)
(* Each specification starts from the same constructed state and moves     *)
(* only its own component.                                                 *)
(***************************************************************************)
EXTENDS Integers, Sequences, FiniteSets, TLC

VARIABLES
    now,            \* time.time(), in seconds
    \* ---- one CircuitBreaker ------------------------------------------
    cb,             \* the breaker's fields
    cbCfg,          \* its constructor arguments
    cbLast,         \* the last operation called on it, its result, the state before
    closedRun,      \* consecutive record_failure calls of a run begun in CLOSED
    \* ---- one ProviderManager ----------------------------------------
    providers,      \* _providers: registered provider names, by priority
    enabled,        \* config.enabled of each provider
    circuits,       \* the circuit of each provider
    current,        \* _current_provider
    fallback_count, \* _fallback_count
    pmPc,           \* where the execute call in progress stands
    pmProvider,     \* execute's local `provider`
    tried,          \* execute's local tried_providers
    errors,         \* execute's local errors (provider names)
    invoked,        \* providers whose execute was awaited in this call, in order
    outcomes,       \* per invocation: the vendor's outcome and what was recorded
    pmResult,       \* the provider whose result the call returned, and the result
    pmPre,          \* current, fallback_count and availability when the call began
    \* ---- one websocket connection and its orchestrator -------------
    sess,           \* the VoiceSessionStreaming object's fields
    inbox,          \* messages the client has sent and receive() has not returned
    hpc,            \* where the handler stands: in receive(), or at an await of the turn
    turn,           \* the locals of the turn in progress or just ended
    log,            \* frames sent since the last receive(), and barge-in attempts
    nSent,          \* messages sent by the client
    \* ---- the session store and the connections on a session id ------
    useFallback,    \* RedisManager._use_fallback
    store,          \* the session record stored under each session id
    conns,          \* per connection: its endpoint, handler and orchestrator
    nTurns,         \* turns started, over all connections
    nAccepts,       \* connections accepted
    lastUpd,        \* the last update_session call that returned
    \* ---- the semantic cache ------------------------------------------
    resp,           \* the sem_cache:<digest> records
    emb,            \* the sem_emb:<digest> records
    index,          \* the members of sem_cache:index
    cres,           \* the last cache call that returned, and what it returned
    nOps,           \* cache calls made
    cop,            \* per caller: the cache call it is in, and the call's locals
    \* ---- the manager's lock and the remote store's connection -------
    callers,        \* per coroutine calling execute: outside, at the lock, or inside
    remoteUp,       \* does the remote store answer?
    rcall           \* the last RedisManager call, and how it came back

cbVars == <<cb, cbCfg, cbLast, closedRun>>

pmVars == <<providers, enabled, circuits, current, fallback_count, pmPc,
            pmProvider, tried, errors, invoked, outcomes, pmResult, pmPre>>

turnVars == <<sess, inbox, hpc, turn, log, nSent>>

sessVars == <<useFallback, store, conns, nTurns, nAccepts, lastUpd>>

cacheVars == <<resp, emb, index, cres, nOps, cop>>

ioVars == <<callers, remoteUp, rcall>>

vars == <<now, cbVars, pmVars, turnVars, sessVars, cacheVars, ioVars>>

\* What each component leaves alone.
notCB == <<pmVars, turnVars, sessVars, cacheVars, ioVars>>
notPM == <<cbVars, turnVars, sessVars, cacheVars, ioVars>>
notTurn == <<cbVars, pmVars, sessVars, cacheVars, ioVars>>
notSess == <<cbVars, pmVars, turnVars, cacheVars, ioVars>>
notCache == <<cbVars, pmVars, turnVars, store, conns, nTurns, nAccepts, lastUpd,
              ioVars>>

\* ------------------------------------------------------------------ bounds
\* The clock advances in steps of TickStep seconds up to MaxTime.
TickStep == 15
MaxTime == 60
\* consecutive_failures is not bounded by the code; the model stops failing
\* a circuit at MaxFailures.
MaxFailures == 5
\* The largest success_threshold a breaker is constructed with.
MaxSuccessThreshold == 2
\* Calls are started while fallback_count is below MaxFallbacks.
MaxFallbacks == 2
\* The client sends at most MaxMessages messages, at most MaxInbox of them
\* waiting in the receive queue.
MaxMessages == 3
MaxInbox == 2
\* The LLM streams at most MaxTokens tokens; a word has WordChars characters.
MaxTokens == 3
WordChars == 11
\* At most MaxTurns turns are started on the connections of a session id.
MaxTurns == 2
\* At most MaxAccepts connections are accepted.
MaxAccepts == 2
\* The session store's clock advances in steps of SessionTickStep seconds
\* up to MaxSessionTime.
SessionTickStep == 700
MaxSessionTime == 2100
MaxCacheOps == 4
MaxCacheCalls == 3
CacheTickStep == 300
MaxCacheTime == 900

\* ------------------------------------------------- circuit_breaker.py
DefaultFailureThreshold == 3
DefaultRecoveryTimeout == 30
DefaultSuccessThreshold == 1

CircuitStates == {"closed", "open", "half_open"}

\* CircuitBreaker.__init__: CLOSED, fresh stats stamped with the clock.
NewCircuit(t) ==
    [state |-> "closed", consecutive_failures |-> 0,
     state_changed_at |-> t, half_open_successes |-> 0]

CircuitConfig(ft, rt, st) ==
    [failure_threshold |-> ft, recovery_timeout |-> rt, success_threshold |-> st]

DefaultConfig ==
    CircuitConfig(DefaultFailureThreshold, DefaultRecoveryTimeout,
                  DefaultSuccessThreshold)

\* A _transition_to that leaves state_changed_at as it was.
TransitionToKeepsTime(c, new_state, t) ==
    [c EXCEPT !.state = new_state, !.half_open_successes = 0]

\* CircuitBreaker._transition_to
TransitionTo(c, new_state, t) ==
    [c EXCEPT !.state = new_state, !.state_changed_at = t,
              !.half_open_successes = 0]

\* An is_available whose timeout test is strict.
IsAvailableStrict(c, cfg, t) ==
    IF c.state = "closed" THEN [ok |-> TRUE, c |-> c]
    ELSE IF c.state = "open" THEN
        IF t - c.state_changed_at > cfg.recovery_timeout
        THEN [ok |-> TRUE, c |-> TransitionTo(c, "half_open", t)]
        ELSE [ok |-> FALSE, c |-> c]
    ELSE [ok |-> TRUE, c |-> c]

\* CircuitBreaker.is_available: the answer, and the breaker after the check
\* (the check itself moves OPEN to HALF_OPEN once the timeout has passed).
IsAvailable(c, cfg, t) ==
    IF c.state = "closed" THEN [ok |-> TRUE, c |-> c]
    ELSE IF c.state = "open" THEN
        IF t - c.state_changed_at >= cfg.recovery_timeout
        THEN [ok |-> TRUE, c |-> TransitionTo(c, "half_open", t)]
        ELSE [ok |-> FALSE, c |-> c]
    ELSE [ok |-> TRUE, c |-> c]

\* CircuitBreaker.record_success
RecordSuccess(c, cfg, t) ==
    LET c1 == [c EXCEPT !.consecutive_failures = 0] IN
    IF c1.state = "half_open" THEN
        LET c2 == [c1 EXCEPT !.half_open_successes = @ + 1] IN
        IF c2.half_open_successes >= cfg.success_threshold
        THEN TransitionTo(c2, "closed", t)
        ELSE c2
    ELSE c1

\* A record_failure whose threshold test is off by one.
RecordFailureLate(c, cfg, t) ==
    LET c1 == [c EXCEPT !.consecutive_failures = @ + 1] IN
    IF c1.state = "half_open" THEN TransitionTo(c1, "open", t)
    ELSE IF c1.state = "closed" THEN
        IF c1.consecutive_failures > cfg.failure_threshold
        THEN TransitionTo(c1, "open", t)
        ELSE c1
    ELSE c1

\* CircuitBreaker.record_failure
RecordFailure(c, cfg, t) ==
    LET c1 == [c EXCEPT !.consecutive_failures = @ + 1] IN
    IF c1.state = "half_open" THEN TransitionTo(c1, "open", t)
    ELSE IF c1.state = "closed" THEN
        IF c1.consecutive_failures >= cfg.failure_threshold
        THEN TransitionTo(c1, "open", t)
        ELSE c1
    ELSE c1

\* CircuitBreaker.reset
ResetCircuit(c, t) == NewCircuit(t)

\* ------------------------------------------------------------ the clock
Tick ==
    /\ now + TickStep <= MaxTime
    /\ now' = now + TickStep
    /\ UNCHANGED <<cbVars, pmVars, turnVars, sessVars, cacheVars, ioVars>>

\* ------------------------------------------------- provider_manager.py
\* The providers a manager is given: the two STT adapters websocket.py
\* registers, and one further BaseProvider subclass ("custom") standing for
\* any adapter whose execute lets its exception out.
ProviderNames == {"deepgram", "assemblyai", "custom"}
None == "none"

\* ProviderConfig.priority (lower = preferred)
Priority(p) ==
    CASE p = "deepgram" -> 0
      [] p = "assemblyai" -> 1
      [] OTHER -> 2

\* What the remote vendor does with one request.
VendorOutcomes == {"ok", "http_error", "timeout", "malformed"}

Text == "text"
Empty == ""

\* DeepgramSTTService.transcribe: every exception of the vendor call is
\* caught and an empty transcript returned.
DeepgramTranscribe(v) ==
    IF v = "ok" THEN [kind |-> "result", value |-> Text]
    ELSE [kind |-> "result", value |-> Empty]

\* AssemblyAISTTService.transcribe: a failed upload, a timeout or a response
\* without the expected keys raises.
AssemblyAITranscribe(v) ==
    IF v = "ok" THEN [kind |-> "result", value |-> Text]
    ELSE [kind |-> "raise", value |-> Empty]

\* BaseProvider.execute is abstract: an adapter returns a result, raises, or
\* raises CircuitOpenError.
CustomExecute(v) ==
    IF v = "ok" THEN [kind |-> "result", value |-> Text]
    ELSE IF v = "circuit_open" THEN [kind |-> "circuit_open", value |-> Empty]
    ELSE [kind |-> "raise", value |-> Empty]

\* What the vendor of provider p can answer.
OutcomesOf(p) ==
    IF p = "custom" THEN VendorOutcomes \cup {"circuit_open"} ELSE VendorOutcomes

\* STTProvider.execute -> transcribe -> service.transcribe
ProviderExecute(p, v) ==
    CASE p = "deepgram" -> DeepgramTranscribe(v)
      [] p = "assemblyai" -> AssemblyAITranscribe(v)
      [] OTHER -> CustomExecute(v)

\* An is_available that does not look at config.enabled.
ProviderIsAvailableAnyway(p, en, circs, t) ==
    LET r == IsAvailable(circs[p], DefaultConfig, t)
    IN [ok |-> r.ok, circs |-> [circs EXCEPT ![p] = r.c]]

\* BaseProvider.is_available: config.enabled and circuit.is_available; the
\* circuit is asked only when the provider is enabled.
ProviderIsAvailable(p, en, circs, t) ==
    IF en[p]
    THEN LET r == IsAvailable(circs[p], DefaultConfig, t)
         IN [ok |-> r.ok, circs |-> [circs EXCEPT ![p] = r.c]]
    ELSE [ok |-> FALSE, circs |-> circs]

\* ProviderManager._get_next_available: the first provider, in priority
\* order, that is available and is not `exclude`; every provider asked on
\* the way has had its is_available evaluated.
RECURSIVE NextAvailableFrom(_, _, _, _, _, _)
NextAvailableFrom(i, provs, en, circs, exclude, t) ==
    IF i > Len(provs) THEN [p |-> None, circs |-> circs]
    ELSE LET p == provs[i]
             r == ProviderIsAvailable(p, en, circs, t)
         IN IF r.ok /\ p # exclude
            THEN [p |-> p, circs |-> r.circs]
            ELSE NextAvailableFrom(i + 1, provs, en, r.circs, exclude, t)

GetNextAvailable(provs, en, circs, exclude, t) ==
    NextAvailableFrom(1, provs, en, circs, exclude, t)

\* list.sort(key=priority) after append: insertion into a sorted list,
\* after the entries of equal priority.
RECURSIVE InsertByPriority(_, _)
InsertByPriority(provs, p) ==
    IF provs = <<>> THEN <<p>>
    ELSE IF Priority(p) < Priority(Head(provs))
         THEN <<p>> \o provs
         ELSE <<Head(provs)>> \o InsertByPriority(Tail(provs), p)

Registered == {providers[i] : i \in 1..Len(providers)}

\* execute, lines 134-139: the current provider if it is available,
\* otherwise the next available one.
SelectFirst(provs, en, circs, cur, t) ==
    LET r == IF cur # None THEN ProviderIsAvailable(cur, en, circs, t)
             ELSE [ok |-> FALSE, circs |-> circs]
    IN IF r.ok THEN [p |-> cur, circs |-> r.circs]
       ELSE GetNextAvailable(provs, en, r.circs, None, t)

\* A success path that counts a fallback on every success.
OnSuccessAlwaysCounts(p, circs, cur, fc, t) ==
    [circs |-> [circs EXCEPT ![p] = RecordSuccess(circs[p], DefaultConfig, t)],
     current |-> p,
     fallback_count |-> fc + 1]

\* execute, lines 153-162: record_success, then switch current and count a
\* fallback if the provider is not the current one.
OnSuccess(p, circs, cur, fc, t) ==
    [circs |-> [circs EXCEPT ![p] = RecordSuccess(circs[p], DefaultConfig, t)],
     current |-> IF p # cur THEN p ELSE cur,
     fallback_count |-> IF p # cur THEN fc + 1 ELSE fc]

\* Whether p may not be called at time t: disabled, or OPEN with the
\* recovery timeout not yet elapsed.
Blocked(p, en, circs, t) ==
    \/ ~en[p]
    \/ /\ circs[p].state = "open"
       /\ t - circs[p].state_changed_at < DefaultConfig.recovery_timeout

NoResult == [provider |-> None, value |-> Empty]
NoPre == [current |-> None, fallback_count |-> 0, allBlocked |-> FALSE]

\* ProviderManager.__init__, before any register.
PMInit ==
    /\ providers = <<>>
    /\ enabled = [p \in ProviderNames |-> TRUE]
    /\ circuits = [p \in ProviderNames |-> NewCircuit(0)]
    /\ current = None
    /\ fallback_count = 0
    /\ pmPc = "idle"
    /\ pmProvider = None
    /\ tried = {}
    /\ errors = <<>>
    /\ invoked = <<>>
    /\ outcomes = <<>>
    /\ pmResult = NoResult
    /\ pmPre = NoPre

callLocals == <<pmProvider, tried, errors, invoked, outcomes, pmResult, pmPre>>

\* ProviderManager.register; the provider's circuit is created with it.
\* The concrete adapters are constructed enabled; a custom one may not be.
PM_Register(p, en) ==
    /\ pmPc = "idle"
    /\ p \notin Registered
    /\ p # "custom" => en
    /\ providers' = InsertByPriority(providers, p)
    /\ enabled' = [enabled EXCEPT ![p] = en]
    /\ circuits' = [circuits EXCEPT ![p] = NewCircuit(now)]
    /\ current' = IF current = None THEN p ELSE current
    /\ UNCHANGED <<now, fallback_count, pmPc, callLocals, notPM>>

\* execute, lines 130-139: take the lock and choose the first provider.
ExecuteStartStep ==
    /\ pmPc = "idle"
    /\ fallback_count < MaxFallbacks
    /\ LET sel == SelectFirst(providers, enabled, circuits, current, now) IN
        /\ pmProvider' = sel.p
        /\ circuits' = sel.circs
    /\ pmPc' = "loop"
    /\ tried' = {}
    /\ errors' = <<>>
    /\ invoked' = <<>>
    /\ outcomes' = <<>>
    /\ pmResult' = NoResult
    /\ pmPre' = [current |-> current, fallback_count |-> fallback_count,
                 allBlocked |-> \A p \in Registered :
                                   Blocked(p, enabled, circuits, now)]
    /\ UNCHANGED <<providers, enabled, current, fallback_count>>

PM_ExecuteStart == ExecuteStartStep /\ UNCHANGED <<now, notPM>>

\* execute, lines 142-145: a provider already tried in this call is passed
\* over for the next available one other than itself.
PM_LoopSkip ==
    /\ pmPc = "loop"
    /\ pmProvider # None
    /\ pmProvider \in tried
    /\ LET nxt == GetNextAvailable(providers, enabled, circuits, pmProvider, now) IN
        /\ pmProvider' = nxt.p
        /\ circuits' = nxt.circs
    /\ UNCHANGED <<now, providers, enabled, current, fallback_count, pmPc,
                   tried, errors, invoked, outcomes, pmResult, pmPre, notPM>>

\* execute, lines 147-151: mark the provider tried and await its execute.
PM_Invoke ==
    /\ pmPc = "loop"
    /\ pmProvider # None
    /\ pmProvider \notin tried
    /\ tried' = tried \cup {pmProvider}
    /\ invoked' = Append(invoked, pmProvider)
    /\ pmPc' = "awaiting"
    /\ UNCHANGED <<now, providers, enabled, circuits, current, fallback_count,
                   pmProvider, errors, outcomes, pmResult, pmPre, notPM>>

\* execute, lines 151-162: the provider returned a result.
PM_ReturnResult(v) ==
    /\ pmPc = "awaiting"
    /\ v \in OutcomesOf(pmProvider)
    /\ ProviderExecute(pmProvider, v).kind = "result"
    /\ LET s == OnSuccess(pmProvider, circuits, current, fallback_count, now) IN
        /\ circuits' = s.circs
        /\ current' = s.current
        /\ fallback_count' = s.fallback_count
    /\ outcomes' = Append(outcomes, [vendor |-> v, rec |-> "success"])
    /\ pmResult' = [provider |-> pmProvider,
                    value |-> ProviderExecute(pmProvider, v).value]
    /\ pmPc' = "returned"
    /\ UNCHANGED <<now, providers, enabled, pmProvider, tried, errors, invoked,
                   pmPre, notPM>>

\* execute, lines 164-166: the provider raised CircuitOpenError.
PM_ReturnCircuitOpen(v) ==
    /\ pmPc = "awaiting"
    /\ v \in OutcomesOf(pmProvider)
    /\ ProviderExecute(pmProvider, v).kind = "circuit_open"
    /\ LET nxt == GetNextAvailable(providers, enabled, circuits, pmProvider, now) IN
        /\ pmProvider' = nxt.p
        /\ circuits' = nxt.circs
    /\ outcomes' = Append(outcomes, [vendor |-> v, rec |-> "none"])
    /\ pmPc' = "loop"
    /\ UNCHANGED <<now, providers, enabled, current, fallback_count, tried,
                   errors, invoked, pmResult, pmPre, notPM>>

\* execute, lines 168-174: the provider raised; record the failure and go
\* on with the next available provider other than this one.
PM_ReturnFailure(v) ==
    /\ pmPc = "awaiting"
    /\ v \in OutcomesOf(pmProvider)
    /\ ProviderExecute(pmProvider, v).kind = "raise"
    /\ circuits[pmProvider].consecutive_failures < MaxFailures
    /\ LET failed == [circuits EXCEPT ![pmProvider] =
                         RecordFailure(circuits[pmProvider], DefaultConfig, now)]
           nxt == GetNextAvailable(providers, enabled, failed, pmProvider, now)
       IN /\ pmProvider' = nxt.p
          /\ circuits' = nxt.circs
    /\ errors' = Append(errors, pmProvider)
    /\ outcomes' = Append(outcomes, [vendor |-> v, rec |-> "failure"])
    /\ pmPc' = "loop"
    /\ UNCHANGED <<now, providers, enabled, current, fallback_count, tried,
                   invoked, pmResult, pmPre, notPM>>

\* A mutation of the raise: the manager forgets its current provider.
PM_RaiseAllFailedClearsCurrent ==
    /\ pmPc = "loop"
    /\ pmProvider = None
    /\ pmPc' = "raised"
    /\ current' = None
    /\ UNCHANGED <<now, providers, enabled, circuits, fallback_count,
                   callLocals, notPM>>

\* execute, lines 141 and 176-180: no provider is left; raise
\* AllProvidersFailedError.
PM_RaiseAllFailed ==
    /\ pmPc = "loop"
    /\ pmProvider = None
    /\ pmPc' = "raised"
    /\ UNCHANGED <<now, providers, enabled, circuits, current, fallback_count,
                   callLocals, notPM>>

\* The caller has the result or the exception; the lock is free again.
FinishStep ==
    /\ pmPc \in {"returned", "raised"}
    /\ pmPc' = "idle"
    /\ pmProvider' = None
    /\ tried' = {}
    /\ errors' = <<>>
    /\ invoked' = <<>>
    /\ outcomes' = <<>>
    /\ pmResult' = NoResult
    /\ pmPre' = NoPre
    /\ UNCHANGED <<providers, enabled, circuits, current, fallback_count>>

PM_Finish == FinishStep /\ UNCHANGED <<now, notPM>>

\* ProviderManager.reset_all_circuits: synchronous, so it runs between
\* calls or while a call is suspended in a provider's execute.
PM_ResetAll ==
    /\ pmPc \in {"idle", "awaiting"}
    /\ Registered # {}
    /\ circuits' = [p \in ProviderNames |->
                      IF p \in Registered THEN ResetCircuit(circuits[p], now)
                      ELSE circuits[p]]
    /\ UNCHANGED <<now, providers, enabled, current, fallback_count, pmPc,
                   callLocals, notPM>>

\* The steps execute takes by itself once it has been called.
PM_CallStep ==
    \/ PM_LoopSkip
    \/ PM_Invoke
    \/ \E v \in VendorOutcomes \cup {"circuit_open"} :
          \/ PM_ReturnResult(v)
          \/ PM_ReturnCircuitOpen(v)
          \/ PM_ReturnFailure(v)
    \/ PM_RaiseAllFailed

\* ------------------------------- websocket.py and session_streaming.py
\* What a client puts on the connection.  A binary frame is an audio
\* fragment: its byte length, whether its first four bytes are the WebM
\* magic, and what AudioMetricsService.analyze makes of it ("speech": scored
\* with rms above SILENCE_THRESHOLD, "silence": scored with rms at or below
\* it, "unscored": quality_score 0).
Fragment(size, valid, analysis) ==
    [kind |-> "bytes", size |-> size, valid |-> valid, analysis |-> analysis]

Control(type) == [kind |-> "text", type |-> type]

Fragments ==
    { Fragment(80, TRUE, "silence"),
      Fragment(400, TRUE, "speech"),
      Fragment(1200, TRUE, "speech"),
      Fragment(1200, TRUE, "silence"),
      Fragment(1200, TRUE, "unscored"),
      Fragment(1200, FALSE, "speech"),
      Fragment(12000, TRUE, "speech") }

Controls == { Control("interrupt"), Control("cancel_audio"), Control("ping") }

ClientMessages == Fragments \cup Controls

\* websocket.py line 138: shorter binary frames are not passed on
MinFrameBytes == 100
\* process_audio_chunk line 381
BargeInBytes == 500
\* process_audio_chunk line 426
LargeChunkThreshold == 10000
\* process_audio_chunk line 445
MaxChunksFallback == 6
\* MIN_SPEECH_CHUNKS, line 39
MinSpeechChunks == 1
\* SILENCE_DURATION (2.5 s), line 38, in half seconds
SilenceDurationHalves == 5
\* process_turn_with_streaming line 529, _transcribe_chunks_individually line 236
MinAudioBytes == 1000
\* the sentence test of line 713: more than 10 characters
MinSentenceChars == 10
\* a transcript shorter than 2 characters is empty, lines 267 and 569
MinTranscriptChars == 2
\* a response of more than 20 characters is cached, line 774
MinCacheChars == 20

\* The LLM's tokens: a word of WordChars characters, or a sentence end.
Tokens == {"word", "."}
SentenceEnds == {".", "!", "?", "\n"}

\* The tokens str.strip() removes from the ends of a text.
Whitespace == {" ", "\n"}

RECURSIVE StripLeft(_)
StripLeft(buf) ==
    IF buf # <<>> /\ Head(buf) \in Whitespace THEN StripLeft(Tail(buf))
    ELSE buf

RECURSIVE StripRight(_)
StripRight(buf) ==
    IF buf # <<>> /\ buf[Len(buf)] \in Whitespace
    THEN StripRight(SubSeq(buf, 1, Len(buf) - 1))
    ELSE buf

\* str.strip()
Strip(buf) == StripRight(StripLeft(buf))

TokenChars(tok) == IF tok = "word" THEN WordChars ELSE 1

RECURSIVE Chars(_)
Chars(buf) == IF buf = <<>> THEN 0 ELSE TokenChars(Head(buf)) + Chars(Tail(buf))

\* The pieces of a transcript: "text" has two characters or more, "char"
\* has one; " ".join puts one space between two pieces.
PieceChars(piece) == IF piece = "char" THEN 1 ELSE MinTranscriptChars

RECURSIVE TranscriptChars(_)
TranscriptChars(pieces) ==
    IF pieces = <<>> THEN 0
    ELSE IF Len(pieces) = 1 THEN PieceChars(pieces[1])
    ELSE PieceChars(Head(pieces)) + 1 + TranscriptChars(Tail(pieces))

\* `not transcript or len(transcript.strip()) < 2`
IsEmptyTranscript(pieces) == TranscriptChars(pieces) < MinTranscriptChars

\* VoiceSessionStreaming.__init__
NewSession ==
    [state |-> "idle",
     conversation_history |-> <<>>,
     processing_audio |-> FALSE,
     interrupted |-> FALSE,
     audio_chunks |-> <<>>,
     speech_detected |-> FALSE,
     speech_chunk_count |-> 0,
     last_speech_time |-> 0,
     silence_start_time |-> 0]

\* The locals of the turn in progress, what metrics_collector and the cache
\* were told about it, and how it ended.  A local that is not yet assigned
\* is "unbound".  `sentences` counts the sentences the token loop has
\* completed, `audio_sent` lists the sentences whose audio frame was sent,
\* and `ended_at` is the number of frames sent when end_request was called.
NoTurn ==
    [path |-> "none", chunks |-> <<>>, next_chunk |-> 0, transcript |-> <<>>,
     full_response |-> <<>>, sentence_buffer |-> <<>>,
     first_audio_sent |-> FALSE, used_search |-> FALSE, cache_hit |-> FALSE,
     needs_search |-> "unbound", cached |-> FALSE, metrics |-> "none",
     hist_before |-> 0, llm_calls |-> 0, search_decisions |-> 0,
     sentences |-> 0, audio_sent |-> <<>>, ended_at |-> 0,
     stt_calls |-> 0, tts_texts |-> <<>>, ended |-> "none"]

\* send_state_update: the field is set, then the frame is sent.
SetState(s, st) == [s EXCEPT !.state = st]
StateFrame(st) == "state_change:" \o st

\* A handle_interrupt that sends no acknowledgment.
HandleInterruptNoAck(s) ==
    [s |-> SetState([s EXCEPT !.interrupted = TRUE, !.processing_audio = FALSE],
                    "listening"),
     frames |-> <<StateFrame("listening")>>]

\* handle_interrupt
HandleInterrupt(s) ==
    [s |-> SetState([s EXCEPT !.interrupted = TRUE, !.processing_audio = FALSE],
                    "listening"),
     frames |-> <<"interrupt_ack", StateFrame("listening")>>]

\* reset_interrupt
ResetInterrupt(s) == [s EXCEPT !.interrupted = FALSE]

\* process_audio_chunk up to the point where it returns or calls
\* _process_accumulated_audio: the session after it, the frames it sent, and
\* whether the pipeline is to run.
ProcessAudioChunk(s, f, t) ==
    IF s.state = "speaking" THEN
        IF f.size > BargeInBytes THEN
            LET h == HandleInterrupt([s EXCEPT !.interrupted = TRUE]) IN
            [s |-> [h.s EXCEPT !.audio_chunks = <<f>>,
                               !.speech_detected = TRUE,
                               !.speech_chunk_count = 1],
             frames |-> h.frames, run |-> FALSE]
        ELSE [s |-> s, frames |-> <<>>, run |-> FALSE]
    ELSE IF s.processing_audio THEN [s |-> s, frames |-> <<>>, run |-> FALSE]
    ELSE IF ~f.valid THEN [s |-> s, frames |-> <<>>, run |-> FALSE]
    ELSE
        LET using_fallback == f.analysis = "unscored"
            is_speech == f.analysis # "silence"
            metrics_frames == IF using_fallback THEN <<>> ELSE <<"audio_metrics">>
            stored == [s EXCEPT !.audio_chunks = Append(@, f)]
        IN
        IF f.size > LargeChunkThreshold THEN
            [s |-> stored, frames |-> metrics_frames \o <<"vad_status">>,
             run |-> TRUE]
        ELSE IF using_fallback THEN
            [s |-> [stored EXCEPT !.speech_detected = TRUE,
                                  !.speech_chunk_count = @ + 1],
             frames |-> <<"vad_status">>,
             run |-> Len(stored.audio_chunks) >= MaxChunksFallback]
        ELSE IF is_speech THEN
            [s |-> [stored EXCEPT !.speech_detected = TRUE,
                                  !.speech_chunk_count = @ + 1,
                                  !.last_speech_time = t,
                                  !.silence_start_time = 0],
             frames |-> metrics_frames \o <<"vad_status">>, run |-> FALSE]
        ELSE IF stored.speech_detected
                /\ stored.speech_chunk_count >= MinSpeechChunks THEN
            LET started == IF stored.silence_start_time = 0
                           THEN [stored EXCEPT !.silence_start_time = t]
                           ELSE stored
            IN [s |-> started, frames |-> metrics_frames \o <<"vad_status">>,
                run |-> 2 * (t - started.silence_start_time)
                            >= SilenceDurationHalves]
        ELSE [s |-> stored, frames |-> metrics_frames \o <<"vad_status">>,
              run |-> FALSE]

\* A mutation of _process_accumulated_audio: the speech seen is not reset.
TakeChunksKeepsSpeech(s) ==
    [s EXCEPT !.processing_audio = TRUE,
              !.audio_chunks = <<>>,
              !.silence_start_time = 0]

\* _process_accumulated_audio, lines 485-497: nothing to do, or take the
\* accumulated chunks and reset the segmentation state.
TakeChunks(s) ==
    [s EXCEPT !.processing_audio = TRUE,
              !.audio_chunks = <<>>,
              !.speech_detected = FALSE,
              !.speech_chunk_count = 0,
              !.silence_start_time = 0]

\* A `finally` that forgets the state update.
FinallyKeepsState(s) == [s EXCEPT !.processing_audio = FALSE]

\* _process_accumulated_audio, lines 521-523: the `finally`.
Finally(s) == SetState([s EXCEPT !.processing_audio = FALSE], "listening")

\* The state of a connection whose handler has sent its first
\* state update (websocket.py line 100) and waits in receive().
TurnInit ==
    /\ sess = SetState(NewSession, "listening")
    /\ inbox = <<>>
    /\ hpc = "recv"
    /\ turn = NoTurn
    /\ log = <<>>
    /\ nSent = 0

\* Does this message, sent now, reach a turn that is speaking?
IsBargeIn(m) ==
    /\ hpc # "recv"
    /\ sess.state = "speaking"
    /\ \/ m.kind = "bytes" /\ m.size > BargeInBytes
       \/ m.kind = "text" /\ m.type \in {"interrupt", "cancel_audio"}

\* The client sends a message; it waits in the connection's receive queue
\* until the handler's loop comes back to `await websocket.receive()`.
ClientSend(m) ==
    /\ nSent < MaxMessages
    /\ Len(inbox) < MaxInbox
    /\ inbox' = Append(inbox, m)
    /\ nSent' = nSent + 1
    /\ log' = IF IsBargeIn(m) THEN Append(log, "client_barge_in") ELSE log
    /\ UNCHANGED <<now, sess, hpc, turn, notTurn>>

\* handle_voice_session, lines 114-133: a text message.
H_ReceiveText ==
    /\ hpc = "recv"
    /\ inbox # <<>>
    /\ Head(inbox).kind = "text"
    /\ inbox' = Tail(inbox)
    /\ turn' = NoTurn
    /\ IF Head(inbox).type \in {"interrupt", "cancel_audio"}
       THEN LET h == HandleInterrupt(sess) IN sess' = h.s /\ log' = h.frames
       ELSE sess' = sess /\ log' = <<>>
    /\ UNCHANGED <<now, hpc, nSent, notTurn>>

\* The guards of _process_accumulated_audio, lines 485-489.
PipelineStarts(s) == ~s.processing_audio /\ s.audio_chunks # <<>>

\* handle_voice_session, lines 136-141: a binary message, through
\* process_audio_chunk, up to the pipeline's first await.
H_ReceiveBytes ==
    /\ hpc = "recv"
    /\ inbox # <<>>
    /\ Head(inbox).kind = "bytes"
    /\ inbox' = Tail(inbox)
    /\ IF Head(inbox).size > MinFrameBytes
       THEN LET r == ProcessAudioChunk(ResetInterrupt(sess), Head(inbox), now) IN
            /\ log' = r.frames
            /\ IF r.run /\ PipelineStarts(r.s)
               THEN /\ sess' = TakeChunks(r.s)
                    /\ turn' = [NoTurn EXCEPT
                                   !.chunks = r.s.audio_chunks,
                                   !.hist_before = Len(r.s.conversation_history)]
                    /\ hpc' = "concat"
               ELSE sess' = r.s /\ turn' = NoTurn /\ hpc' = hpc
       ELSE sess' = sess /\ log' = <<>> /\ turn' = NoTurn /\ hpc' = hpc
    /\ UNCHANGED <<now, nSent, notTurn>>

\* The pipeline returns to _process_accumulated_audio, whose `finally`
\* runs, and the handler goes back to receive().
Return(s, frames, t, how) ==
    /\ sess' = Finally(s)
    /\ log' = log \o frames \o <<StateFrame("listening")>>
    /\ turn' = [t EXCEPT !.ended = how]
    /\ hpc' = "recv"

\* metrics_collector.start_request; send_state_update("thinking")
StartRequest(t) == [t EXCEPT !.metrics = "in_flight"]

\* metrics_collector.end_request, called when `sent` frames have gone to
\* the client: a request not in flight is left alone.
EndRequest(t, result, sent) ==
    IF t.metrics # "in_flight" THEN t
    ELSE [t EXCEPT !.metrics = result, !.ended_at = sent]

\* _concatenate_audio_chunks and what follows it, lines 501-510 and 529-538.
\* "none": no ffprobe or no chunk decodes; "short": fewer than
\* MinAudioBytes bytes of WAV; "audio": at least that.
ConcatOutcomes == {"none", "short", "audio"}

T_Concat(c) ==
    /\ hpc = "concat"
    /\ CASE c = "short" -> Return(sess, <<>>, turn, "short")
         [] c = "audio" ->
               /\ sess' = SetState(sess, "thinking")
               /\ log' = Append(log, StateFrame("thinking"))
               /\ turn' = [StartRequest(turn) EXCEPT !.path = "stream"]
               /\ hpc' = "stt"
         [] c = "none" ->
               /\ turn' = [turn EXCEPT !.path = "chunks", !.next_chunk = 1]
               /\ hpc' = "stt_chunk"
               /\ UNCHANGED <<sess, log>>
    /\ UNCHANGED <<now, inbox, nSent, notTurn>>

\* What stt_manager.execute gives the turn: a transcript of two characters
\* or more, of one character, an empty one, or an exception.
SttOutcomes == {"text", "char", "empty", "raise"}

PiecesOf(o) == IF o \in {"text", "char"} THEN <<o>> ELSE <<>>

\* A turn that ends a request with an empty transcript as a failed one.
T_SttCountsEmpty(o) ==
    /\ hpc = "stt"
    /\ IF o = "raise" \/ IsEmptyTranscript(PiecesOf(o))
       THEN Return(SetState(sess, "listening"), <<StateFrame("listening")>>,
                   [turn EXCEPT !.metrics = "failed"],
                   IF o = "raise" THEN "stt_error" ELSE "empty")
       ELSE /\ sess' = [sess EXCEPT !.conversation_history =
                           Append(@, [role |-> "user", content |-> PiecesOf(o)])]
            /\ log' = Append(log, "transcript:user")
            /\ turn' = [turn EXCEPT !.transcript = PiecesOf(o)]
            /\ hpc' = "cache"
    /\ UNCHANGED <<now, inbox, nSent, notTurn>>

\* process_turn_with_streaming, lines 545-588.
T_Stt(o) ==
    /\ hpc = "stt"
    /\ IF o = "raise"
       THEN Return(SetState(sess, "listening"), <<StateFrame("listening")>>,
                   EndRequest(turn, "failed", Len(log)), "stt_error")
       ELSE IF IsEmptyTranscript(PiecesOf(o))
       THEN Return(SetState(sess, "listening"), <<StateFrame("listening")>>,
                   [turn EXCEPT !.metrics = "dropped"], "empty")
       ELSE /\ sess' = [sess EXCEPT !.conversation_history =
                           Append(@, [role |-> "user", content |-> PiecesOf(o)])]
            /\ log' = Append(log, "transcript:user")
            /\ turn' = [turn EXCEPT !.transcript = PiecesOf(o)]
            /\ hpc' = "cache"
    /\ UNCHANGED <<now, inbox, nSent, notTurn>>

\* _transcribe_chunks_individually, lines 234-258, one chunk at a time:
\* what the iteration does to the turn.
SttChunkStep(o) ==
    /\ hpc = "stt_chunk"
    /\ LET chunk == turn.chunks[turn.next_chunk]
           got == IF chunk.size < MinAudioBytes THEN <<>> ELSE PiecesOf(o)
           transcripts == turn.transcript \o got
           t == [turn EXCEPT !.transcript = transcripts, !.next_chunk = @ + 1,
                             !.stt_calls = IF chunk.size < MinAudioBytes
                                           THEN @ ELSE @ + 1]
       IN
       /\ chunk.size < MinAudioBytes => o = "empty"
       /\ IF turn.next_chunk < Len(turn.chunks)
          THEN turn' = t /\ hpc' = hpc /\ UNCHANGED <<sess, log>>
          ELSE IF transcripts = <<>>
          THEN Return(sess, <<>>, t, "no_transcript")
          ELSE turn' = t /\ hpc' = "respond" /\ UNCHANGED <<sess, log>>

T_SttChunk(o) == SttChunkStep(o) /\ UNCHANGED <<now, inbox, nSent, notTurn>>

\* _process_transcript_to_response, lines 267-305.
T_Respond ==
    /\ hpc = "respond"
    /\ IF IsEmptyTranscript(turn.transcript)
       THEN Return(SetState(sess, "listening"), <<StateFrame("listening")>>,
                   turn, "empty")
       ELSE /\ sess' = [SetState(sess, "thinking") EXCEPT
                           !.conversation_history =
                               Append(@, [role |-> "user",
                                          content |-> turn.transcript])]
            /\ log' = log \o <<StateFrame("thinking"), "transcript:user">>
            /\ turn' = [StartRequest(turn) EXCEPT !.path = "direct",
                                                  !.llm_calls = @ + 1]
            /\ hpc' = "llm"
    /\ UNCHANGED <<now, inbox, nSent, notTurn>>

\* What tts_manager.execute gives the turn.  CartesiaTTSService.synthesize
\* catches every exception of the vendor call and returns 100 ms of silence
\* as a WAV ("silence"), so the manager sees a result; "audio" is the
\* synthesized sentence, "nothing" an empty result, "raise" an exception
\* out of the try block (no provider available, or the send failing).
TtsOutcomes == {"audio", "silence", "nothing", "raise"}

\* The outcomes in which the TTS vendor failed for the sentence.
TtsFailed == {"silence", "raise"}

AudioFrames(s, o, frame) ==
    IF o \in {"audio", "silence"} /\ ~s.interrupted THEN <<frame>> ELSE <<>>

AssistantMessage(content) == [role |-> "assistant", content |-> content]

\* process_turn_with_streaming, lines 590-641: the cache probe and the test
\* `cache_hit and not needs_search` of line 601, which reads the local
\* needs_search that line 646 assigns: with a hit the read raises
\* UnboundLocalError, handled at lines 802-807.
T_Cache(hit, o) ==
    /\ hpc = "cache"
    /\ LET t == [turn EXCEPT !.cache_hit = hit] IN
       IF ~hit
       THEN turn' = t /\ hpc' = "search" /\ UNCHANGED <<sess, log>>
       ELSE IF t.needs_search = "unbound"
       THEN Return(sess, <<"error">>, EndRequest(t, "failed", Len(log)),
                   "exception")
       ELSE IF t.needs_search = TRUE
       THEN turn' = t /\ hpc' = "search" /\ UNCHANGED <<sess, log>>
       ELSE Return([SetState(sess, "listening") EXCEPT
                       !.conversation_history =
                           Append(@, AssistantMessage(<<"cached">>))],
                   <<StateFrame("speaking"), "transcript:assistant">>
                       \o AudioFrames(sess, o, "audio_response")
                       \o <<StateFrame("listening")>>,
                   EndRequest(t, "success",
                              Len(log) + 2
                                  + Len(AudioFrames(sess, o, "audio_response"))),
                   "cache_hit")
    /\ UNCHANGED <<now, inbox, nSent, notTurn>>

\* process_turn_with_streaming, lines 644-700: the search decision, the
\* search, and the token generator of the current LLM provider.
T_Search(needs) ==
    /\ hpc = "search"
    /\ turn' = [turn EXCEPT !.needs_search = needs,
                            !.used_search = needs,
                            !.search_decisions = @ + 1,
                            !.llm_calls = @ + 1]
    /\ hpc' = "llm"
    /\ UNCHANGED <<now, sess, inbox, log, nSent, notTurn>>

\* send_state_update("speaking") before the first audio of the turn.
Speaking(s, t) == IF t.first_audio_sent THEN s ELSE SetState(s, "speaking")
SpeakingFrames(t) ==
    IF t.first_audio_sent THEN <<>> ELSE <<StateFrame("speaking")>>

\* A token loop that sends no interim transcript update.
T_TokenSilent(tok) ==
    /\ hpc = "llm"
    /\ Len(turn.full_response) < MaxTokens
    /\ IF sess.interrupted
       THEN hpc' = "finalize" /\ UNCHANGED <<sess, turn, log>>
       ELSE LET t == [turn EXCEPT !.full_response = Append(@, tok),
                                  !.sentence_buffer = Append(@, tok)]
            IN IF tok \in SentenceEnds
                  /\ Chars(Strip(t.sentence_buffer)) > MinSentenceChars
               THEN /\ sess' = Speaking(sess, t)
                    /\ log' = log \o SpeakingFrames(t)
                    /\ turn' = [t EXCEPT !.first_audio_sent = TRUE,
                                         !.sentences = @ + 1,
                                         !.tts_texts =
                                             Append(@, Strip(t.sentence_buffer))]
                    /\ hpc' = "tts"
               ELSE /\ turn' = t
                    /\ UNCHANGED <<sess, hpc, log>>
    /\ UNCHANGED <<now, inbox, nSent, notTurn>>

\* The body of the token loop up to its TTS call, lines 702-724 (307-326).
T_Token(tok) ==
    /\ hpc = "llm"
    /\ Len(turn.full_response) < MaxTokens
    /\ IF sess.interrupted
       THEN hpc' = "finalize" /\ UNCHANGED <<sess, turn, log>>
       ELSE LET t == [turn EXCEPT !.full_response = Append(@, tok),
                                  !.sentence_buffer = Append(@, tok)]
            IN IF tok \in SentenceEnds
                  /\ Chars(Strip(t.sentence_buffer)) > MinSentenceChars
               THEN /\ sess' = Speaking(sess, t)
                    /\ log' = log \o <<"transcript:assistant:interim">>
                                  \o SpeakingFrames(t)
                    /\ turn' = [t EXCEPT !.first_audio_sent = TRUE,
                                         !.sentences = @ + 1,
                                         !.tts_texts =
                                             Append(@, Strip(t.sentence_buffer))]
                    /\ hpc' = "tts"
               ELSE /\ log' = Append(log, "transcript:assistant:interim")
                    /\ turn' = t
                    /\ UNCHANGED <<sess, hpc>>
    /\ UNCHANGED <<now, inbox, nSent, notTurn>>

\* The TTS call of a sentence, lines 726-741 (328-339).
T_Tts(o) ==
    /\ hpc = "tts"
    /\ log' = log \o AudioFrames(sess, o, "audio")
    /\ turn' = [turn EXCEPT !.sentence_buffer = <<>>,
                            !.audio_sent =
                                @ \o AudioFrames(sess, o, turn.sentences)]
    /\ hpc' = "llm"
    /\ UNCHANGED <<now, sess, inbox, nSent, notTurn>>

\* A stream end that leaves the remaining buffer unspoken.
T_StreamEndSkipsRest ==
    /\ hpc = "llm"
    /\ hpc' = "finalize"
    /\ UNCHANGED <<now, sess, log, turn, inbox, nSent, notTurn>>

\* The generator is exhausted; lines 744-746 (344-346): the text of the
\* remaining buffer goes to TTS unless it is empty or the turn interrupted.
T_StreamEnd ==
    /\ hpc = "llm"
    /\ IF Strip(turn.sentence_buffer) # <<>> /\ ~sess.interrupted
       THEN /\ sess' = Speaking(sess, turn)
            /\ log' = log \o SpeakingFrames(turn)
            /\ turn' = [turn EXCEPT !.tts_texts =
                                        Append(@, Strip(turn.sentence_buffer))]
            /\ hpc' = "tts_final"
       ELSE hpc' = "finalize" /\ UNCHANGED <<sess, log, turn>>
    /\ UNCHANGED <<now, inbox, nSent, notTurn>>

\* The TTS call of the remaining buffer, lines 748-761 (347-356).
T_TtsFinal(o) ==
    /\ hpc = "tts_final"
    /\ log' = log \o AudioFrames(sess, o, "audio")
    /\ turn' = [turn EXCEPT !.audio_sent =
                                @ \o AudioFrames(sess, o, turn.sentences + 1)]
    /\ hpc' = "finalize"
    /\ UNCHANGED <<now, sess, inbox, nSent, notTurn>>

\* A finalize that caches whatever the search decision was.
T_FinalizeCachesSearched ==
    /\ hpc = "finalize"
    /\ IF turn.path = "stream" /\ sess.interrupted
       THEN Return(SetState(sess, "listening"), <<StateFrame("listening")>>,
                   EndRequest(turn, "interrupted", Len(log)), "interrupted")
       ELSE Return([sess EXCEPT !.conversation_history =
                       Append(@, AssistantMessage(turn.full_response))],
                   <<"transcript:assistant">>,
                   [EndRequest(turn, "success", Len(log) + 1) EXCEPT
                       !.cached = /\ turn.path = "stream"
                                  /\ Chars(turn.full_response) > MinCacheChars],
                   "done")
    /\ UNCHANGED <<now, inbox, nSent, notTurn>>

\* Lines 767-799 (359-367): the assistant message is committed, by
\* process_turn_with_streaming only when the turn was not interrupted.
T_Finalize ==
    /\ hpc = "finalize"
    /\ IF turn.path = "stream" /\ sess.interrupted
       THEN Return(SetState(sess, "listening"), <<StateFrame("listening")>>,
                   EndRequest(turn, "interrupted", Len(log)), "interrupted")
       ELSE Return([sess EXCEPT !.conversation_history =
                       Append(@, AssistantMessage(turn.full_response))],
                   <<"transcript:assistant">>,
                   [EndRequest(turn, "success", Len(log) + 1) EXCEPT
                       !.cached = /\ turn.path = "stream"
                                  /\ ~turn.used_search
                                  /\ Chars(turn.full_response) > MinCacheChars],
                   "done")
    /\ UNCHANGED <<now, inbox, nSent, notTurn>>

\* ------------------- main.py, websocket.py, session_manager.py, redis.py
\* The session store and the connections opened on one session id.
SessionIds == {"s1"}
ConnIds == {1, 2}

\* SessionManager.DEFAULT_TTL
SessionTtl == 1800

NoSession == [present |-> FALSE]

\* SessionManager.create_session: the record written with json_set(ttl).
CreateSession(user, t) ==
    [present |-> TRUE, user_id |-> user, state |-> "idle",
     conversation_history |-> <<>>, last_activity |-> t,
     expires |-> t + SessionTtl]

\* RedisManager.get through SessionManager.get_session: the remote store
\* drops a key when the TTL given to set has elapsed; the in-memory
\* fallback store ignores the TTL.
GetSession(st, fallback, sid, t) ==
    IF ~st[sid].present THEN NoSession
    ELSE IF ~fallback /\ t >= st[sid].expires THEN NoSession
    ELSE st[sid]

\* What update_session is asked to change.
Update(state, add) == [state |-> state, add |-> add]

\* An update_session that appends nothing.
ApplyUpdateNoAppend(session, req, t) ==
    [session EXCEPT !.last_activity = t,
                    !.state = IF req.state # "" THEN req.state ELSE @,
                    !.expires = t + SessionTtl]

\* SessionManager.update_session, lines 151-168: the record written back.
ApplyUpdate(session, req, t) ==
    [session EXCEPT !.last_activity = t,
                    !.state = IF req.state # "" THEN req.state ELSE @,
                    !.conversation_history = @ \o req.add,
                    !.expires = t + SessionTtl]

NoRead == [got |-> FALSE]

\* A connection: where its endpoint stands, the stored_session read at
\* line 82 of websocket.py, whether the orchestrator's conversation_history
\* is the very list of stored_session (`initial_history or []`), the
\* orchestrator's history and processing_audio, the update_session calls
\* still to make, and what the call in progress has read.
ClosedConn ==
    [pc |-> "closed",
     stored |-> [present |-> FALSE, conversation_history |-> <<>>],
     aliased |-> FALSE,
     conversation_history |-> <<>>, processing_audio |-> FALSE,
     todo |-> <<>>, read |-> NoRead, flushed |-> FALSE,
     user_id |-> None]

NoUpdate == [kind |-> "none"]

SessInit ==
    /\ useFallback = FALSE
    /\ store = [sid \in SessionIds |-> NoSession]
    /\ conns = [c \in ConnIds |-> ClosedConn]
    /\ nTurns = 0
    /\ nAccepts = 0
    /\ lastUpd = NoUpdate

\* The token query parameter of a connection: none, the token of user
\* "A", the token of user "B", one that does not verify.
NoToken == ""
AuthTokens == {NoToken, "tokA", "tokB", "bad"}

\* authenticate_websocket: a guest identity without a token, the user of
\* a token that verifies, None otherwise.
AuthenticateWebsocket(token) ==
    CASE token = NoToken -> "guest"
      [] token = "tokA" -> "A"
      [] token = "tokB" -> "B"
      [] OTHER -> None

\* voice_endpoint, lines 201-214: the user is authenticated, the session
\* is looked up, and created for the user (for a guest when there is no
\* user) when the store has none.
C_AcceptAs(c, sid, token) ==
    /\ conns[c].pc = "closed"
    /\ nAccepts < MaxAccepts
    /\ nAccepts' = nAccepts + 1
    /\ LET user_id == AuthenticateWebsocket(token) IN
       /\ store' = IF GetSession(store, useFallback, sid, now).present
                   THEN store
                   ELSE [store EXCEPT ![sid] =
                            CreateSession(IF user_id = None THEN "guest"
                                          ELSE user_id, now)]
       /\ conns' = [conns EXCEPT ![c] =
                       [ClosedConn EXCEPT !.pc = "accepted",
                                          !.user_id = user_id]]
    /\ UNCHANGED <<now, useFallback, nTurns, lastUpd, notSess>>

\* A connection without a token.
C_Accept(c, sid) == C_AcceptAs(c, sid, NoToken)

\* handle_voice_session, lines 82-103: the stored session is read, the
\* orchestrator is built on its history, update_session(state="listening").
C_Start(c, sid) ==
    /\ conns[c].pc = "accepted"
    /\ LET stored == GetSession(store, useFallback, sid, now)
           previous == IF stored.present THEN stored.conversation_history
                       ELSE <<>>
       IN conns' = [conns EXCEPT ![c] =
              [@ EXCEPT !.pc = "starting",
                        !.stored = [present |-> stored.present,
                                    conversation_history |-> previous],
                        !.aliased = previous # <<>>,
                        !.conversation_history = previous,
                        !.todo = <<Update("listening", <<>>)>>]]
    /\ UNCHANGED <<now, useFallback, store, nTurns, nAccepts, lastUpd, notSess>>

\* _process_accumulated_audio, lines 485-491: an end of turn starts the
\* pipeline unless this orchestrator is already processing.
C_TurnStart(c) ==
    /\ conns[c].pc = "open"
    /\ ~conns[c].processing_audio
    /\ nTurns < MaxTurns
    /\ nTurns' = nTurns + 1
    /\ conns' = [conns EXCEPT ![c].processing_audio = TRUE]
    /\ UNCHANGED <<now, useFallback, store, nAccepts, lastUpd, notSess>>

\* The turn commits its user and assistant messages (lines 578 and 769)
\* and the `finally` of line 522 runs.
C_TurnEnd(c) ==
    /\ conns[c].pc = "open"
    /\ conns[c].processing_audio
    /\ conns' = [conns EXCEPT ![c] =
           [@ EXCEPT !.processing_audio = FALSE,
                     !.conversation_history =
                         @ \o <<[role |-> "user", content |-> nTurns],
                                [role |-> "assistant", content |-> nTurns]>>]]
    /\ UNCHANGED <<now, useFallback, store, nTurns, nAccepts, lastUpd, notSess>>

\* stored_session.conversation_history as the `finally` of
\* handle_voice_session sees it: the orchestrator's own list when the two
\* are one object.
StoredHistory(conn) ==
    IF conn.aliased THEN conn.conversation_history
    ELSE conn.stored.conversation_history

InSeq(x, seq) == \E i \in 1..Len(seq) : seq[i] = x

RECURSIVE NewMessages(_, _)
NewMessages(conn, history) ==
    IF history = <<>> THEN <<>>
    ELSE (IF conn.stored.present /\ ~InSeq(Head(history), StoredHistory(conn))
          THEN <<Update("", <<Head(history)>>)>> ELSE <<>>)
         \o NewMessages(conn, Tail(history))

\* The client disconnects while the handler waits in receive():
\* handle_voice_session, lines 153-168, then voice_endpoint, line 224.
C_Disconnect(c) ==
    /\ conns[c].pc = "open"
    /\ ~conns[c].processing_audio
    /\ LET conn == conns[c] IN
       conns' = [conns EXCEPT ![c] =
           [@ EXCEPT !.pc = "flushing",
                     !.todo =
                         (IF conn.conversation_history # <<>>
                          THEN <<Update("idle", <<>>)>>
                                   \o NewMessages(conn, conn.conversation_history)
                          ELSE <<>>)
                         \o <<Update("idle", <<>>)>>]]
    /\ UNCHANGED <<now, useFallback, store, nTurns, nAccepts, lastUpd, notSess>>

\* update_session, line 147: get_session.
U_Get(c, sid) ==
    /\ conns[c].todo # <<>>
    /\ ~conns[c].read.got
    /\ conns' = [conns EXCEPT ![c].read =
           [got |-> TRUE, session |-> GetSession(store, useFallback, sid, now)]]
    /\ UNCHANGED <<now, useFallback, store, nTurns, nAccepts, lastUpd, notSess>>

\* update_session, lines 148-170: None for an unknown session, else the
\* changed record is written back with the TTL.
U_Set(c, sid) ==
    /\ conns[c].read.got
    /\ LET req == Head(conns[c].todo)
           session == conns[c].read.session
           rest == Tail(conns[c].todo)
       IN
       /\ IF session.present
          THEN /\ store' = [store EXCEPT ![sid] = ApplyUpdate(session, req, now)]
               /\ lastUpd' = [kind |-> "updated", sid |-> sid, req |-> req,
                              before |-> session.conversation_history]
          ELSE /\ store' = store
               /\ lastUpd' = [kind |-> "unknown", sid |-> sid, req |-> req,
                              before |-> <<>>]
       /\ conns' = [conns EXCEPT ![c] =
              [@ EXCEPT !.read = NoRead,
                        !.todo = rest,
                        !.pc = IF rest # <<>> THEN @
                               ELSE IF @ = "starting" THEN "open"
                               ELSE "closed",
                        !.flushed = rest = <<>> /\ conns[c].pc = "flushing"]]
    /\ UNCHANGED <<now, useFallback, nTurns, nAccepts, notSess>>

\* SessionManager.cleanup_expired, run by the background task.
CleanupExpired ==
    /\ \E sid \in SessionIds :
          /\ GetSession(store, useFallback, sid, now).present
          /\ now - store[sid].last_activity > SessionTtl
    /\ store' = [sid \in SessionIds |->
                    IF /\ GetSession(store, useFallback, sid, now).present
                       /\ now - store[sid].last_activity > SessionTtl
                    THEN NoSession ELSE store[sid]]
    /\ UNCHANGED <<now, useFallback, conns, nTurns, nAccepts, lastUpd, notSess>>

\* Time in the session store's scale: a call on the store takes far less
\* than a step of this clock, so none is in progress when it advances.
SessionTick ==
    /\ \A c \in ConnIds : conns[c].pc \in {"closed", "open"}
    /\ now + SessionTickStep <= MaxSessionTime
    /\ now' = now + SessionTickStep
    /\ UNCHANGED <<cbVars, pmVars, turnVars, sessVars, cacheVars, ioVars>>

\* ------------------------------------- cache.py, embeddings.py, redis.py
\* The queries of the model.  "qd" is a text near "qa": its SHA-256
\* digest differs, its embedding does not (the sentence model gives
\* near-equal texts near-equal vectors).
Queries == {"qa", "qb", "qc", "qd"}
Responses == {"r1", "r2"}

\* hashlib.sha256(query.encode()).hexdigest()[:16]
Digest(q) ==
    CASE q = "qa" -> "d17f" [] q = "qb" -> "8a2c" [] q = "qc" -> "e051"
      [] OTHER -> "40b9"

Digests == {Digest(q) : q \in Queries}

\* get_embedding: the text a vector is the embedding of.
Embedding(q) == IF q = "qd" THEN "qa" ELSE q

\* cosine_similarity of two embeddings, in units of 1/10000.
Cosine(e1, e2) ==
    IF e1 = e2 THEN 10000
    ELSE IF {e1, e2} = {"qa", "qb"} THEN 9000
    ELSE IF {e1, e2} = {"qa", "qc"} THEN 8504
    ELSE 8496

\* round(best_similarity, 3)
Round3(s) == ((s + 5) \div 10) * 10

\* SemanticCache.__init__: similarity_threshold = 0.85, default_ttl = 3600
SimilarityThreshold == 8500
DefaultTtl == 3600
TemporalTtl == 300
SearchTtl == 900
KnowledgeTtl == 7200

\* A query text is a sequence of words.  str.lower() of a word:
Lower(w) ==
    CASE w = "Weather" -> "weather" [] w = "NEWS" -> "news" [] OTHER -> w

\* `word in query_lower` is a substring test: "know" contains "now".
ContainsKeyword(w, k) == w = k \/ (w = "know" /\ k = "now")

TemporalWords == {"weather", "time", "today", "now", "current", "latest"}
SearchWords == {"news", "happened", "recent", "update"}
KnowledgePhrases == {"what is", "who is", "how to", "explain", "define"}

\* any(word in query_lower for word in words)
AnyIn(words, text) ==
    \E i \in 1..Len(text), k \in words : ContainsKeyword(Lower(text[i]), k)

\* A mutation of _classify_query_type: the knowledge rule comes first.
ClassifyKnowledgeFirst(text) ==
    IF AnyIn(KnowledgePhrases, text)
    THEN [type |-> "knowledge", ttl |-> KnowledgeTtl]
    ELSE IF AnyIn(TemporalWords, text)
    THEN [type |-> "temporal", ttl |-> TemporalTtl]
    ELSE IF AnyIn(SearchWords, text)
    THEN [type |-> "search", ttl |-> SearchTtl]
    ELSE [type |-> "general", ttl |-> DefaultTtl]

\* SemanticCache._classify_query_type
ClassifyQueryType(text) ==
    IF AnyIn(TemporalWords, text)
    THEN [type |-> "temporal", ttl |-> TemporalTtl]
    ELSE IF AnyIn(SearchWords, text)
    THEN [type |-> "search", ttl |-> SearchTtl]
    ELSE IF AnyIn(KnowledgePhrases, text)
    THEN [type |-> "knowledge", ttl |-> KnowledgeTtl]
    ELSE [type |-> "general", ttl |-> DefaultTtl]

\* The texts of the queries of the model.
TextOf(q) ==
    CASE q = "qa" -> <<"what is", "Weather">> [] q = "qb" -> <<"NEWS">>
      [] q = "qc" -> <<"what is", "hello">> [] OTHER -> <<"hello">>

\* The class _classify_query_type finds for each query of the model.
QueryType(q) == ClassifyQueryType(TextOf(q)).type

\* _classify_query_type: the TTL of a query
ClassifyTtl(q) ==
    CASE QueryType(q) = "temporal" -> TemporalTtl
      [] QueryType(q) = "search" -> SearchTtl
      [] QueryType(q) = "knowledge" -> KnowledgeTtl
      [] OTHER -> DefaultTtl

NoRecord == [present |-> FALSE]

\* RedisManager.get: the in-memory store returns whatever was set; the
\* remote store no longer has a key whose expiry has passed.
RedisGet(rec, fallback, t) ==
    IF rec.present /\ (fallback \/ t < rec.expires) THEN rec ELSE NoRecord

NoCall == [op |-> "none"]

\* The coroutines that may be inside a cache call: the turns of two
\* connections, or a turn and the cache warmer.
CacheCallers == {1, 2}

\* A caller that is in no cache call.  `keys` is the result of smembers
\* still to be walked, `best` and `best_sim` are best_match and
\* best_similarity; `quiet` says that no other call and no expiry came
\* between the steps of this call.
IdleCall ==
    [pc |-> "idle", op |-> "none", q |-> "", r |-> "", keys |-> {},
     best |-> "", best_sim |-> 0, deleted |-> 0, quiet |-> TRUE]

\* The coroutines that may call execute on one manager.
ExecCallers == {1, 2}

NoStoreCall == [op |-> "none"]

\* Nobody calls execute; the remote store answers and the RedisManager has
\* not been called.
IoInit ==
    /\ callers = [c \in ExecCallers |-> "outside"]
    /\ remoteUp = TRUE
    /\ rcall = NoStoreCall

CacheInit ==
    /\ resp = [d \in Digests |-> NoRecord]
    /\ emb = [d \in Digests |-> NoRecord]
    /\ index = {}
    /\ cres = NoCall
    /\ nOps = 0
    /\ cop = [c \in CacheCallers |-> IdleCall]

\* The queries that have a response record, an embedding record and an
\* index member, all of them still in the store at time t.
LiveEntries(t) ==
    {q \in Queries :
        /\ Digest(q) \in index
        /\ RedisGet(resp[Digest(q)], useFallback, t).present
        /\ RedisGet(emb[Digest(q)], useFallback, t).present}

\* SemanticCache.set, lines 156-194.
CacheSet(q, r) ==
    /\ nOps < MaxCacheOps
    /\ LET d == Digest(q)
           ttl == ClassifyTtl(q)
       IN /\ resp' = [resp EXCEPT ![d] =
                         [present |-> TRUE, query |-> q, response |-> r,
                          expires |-> now + ttl]]
          /\ emb' = [emb EXCEPT ![d] =
                        [present |-> TRUE, embedding |-> Embedding(q),
                         expires |-> now + ttl]]
          /\ index' = index \cup {d}
          /\ cres' = [op |-> "set", query |-> q, response |-> r, at |-> now]
    /\ nOps' = nOps + 1
    /\ UNCHANGED <<now, useFallback, cop, notCache>>

\* The similarity get computes for index member d, 0 when the embedding
\* record is not there.
SimilarityTo(q, d, t) ==
    LET e == RedisGet(emb[d], useFallback, t)
    IN IF e.present THEN Cosine(Embedding(q), e.embedding) ELSE 0

\* A loop that ends with any member reaching the threshold.
BestMatchesAny(q, t) ==
    {d \in index : SimilarityTo(q, d, t) >= SimilarityThreshold}

\* The index members the loop of get can end with as best_match: the loop
\* keeps the first member, in the set's iteration order, that reaches the
\* threshold with a similarity no later member exceeds.
BestMatches(q, t) ==
    {d \in index :
        /\ SimilarityTo(q, d, t) >= SimilarityThreshold
        /\ \A d2 \in index : SimilarityTo(q, d2, t) <= SimilarityTo(q, d, t)}

Miss(q, t) ==
    [op |-> "get", query |-> q, hit |-> FALSE, response |-> "",
     similarity |-> 0, original_query |-> "", at |-> t,
     entries |-> LiveEntries(t)]

\* SemanticCache.get for best_match d, lines 109-131.
Lookup(q, d, t) ==
    LET data == RedisGet(resp[d], useFallback, t)
    IN IF data.present
       THEN [op |-> "get", query |-> q, hit |-> TRUE,
             response |-> data.response,
             similarity |-> Round3(SimilarityTo(q, d, t)),
             original_query |-> data.query, at |-> t,
             entries |-> LiveEntries(t)]
       ELSE Miss(q, t)

\* SemanticCache.get, lines 75-131.
CacheGet(q) ==
    /\ nOps < MaxCacheOps
    /\ IF BestMatches(q, now) = {}
       THEN cres' = Miss(q, now)
       ELSE \E d \in BestMatches(q, now) : cres' = Lookup(q, d, now)
    /\ nOps' = nOps + 1
    /\ UNCHANGED <<now, useFallback, resp, emb, index, cop, notCache>>

\* An invalidate that leaves the digest in the index.
CacheInvalidateKeepsMember(q) ==
    /\ nOps < MaxCacheOps
    /\ resp' = [resp EXCEPT ![Digest(q)] = NoRecord]
    /\ emb' = [emb EXCEPT ![Digest(q)] = NoRecord]
    /\ index' = index
    /\ cres' = [op |-> "invalidate", query |-> q, at |-> now,
                had_entry |-> q \in LiveEntries(now)]
    /\ nOps' = nOps + 1
    /\ UNCHANGED <<now, useFallback, cop, notCache>>

\* SemanticCache.invalidate, lines 196-216.  `had_entry` notes whether the
\* call found a live entry of q, one that a set had put there.
CacheInvalidate(q) ==
    /\ nOps < MaxCacheOps
    /\ resp' = [resp EXCEPT ![Digest(q)] = NoRecord]
    /\ emb' = [emb EXCEPT ![Digest(q)] = NoRecord]
    /\ index' = index \ {Digest(q)}
    /\ cres' = [op |-> "invalidate", query |-> q, at |-> now,
                had_entry |-> q \in LiveEntries(now)]
    /\ nOps' = nOps + 1
    /\ UNCHANGED <<now, useFallback, cop, notCache>>

\* SemanticCache.clear, lines 218-243.
CacheClear ==
    /\ nOps < MaxCacheOps
    /\ resp' = [d \in Digests |-> IF d \in index THEN NoRecord ELSE resp[d]]
    /\ emb' = [d \in Digests |-> IF d \in index THEN NoRecord ELSE emb[d]]
    /\ index' = {}
    /\ cres' = [op |-> "clear", deleted |-> Cardinality(index), at |-> now]
    /\ nOps' = nOps + 1
    /\ UNCHANGED <<now, useFallback, cop, notCache>>

\* Time passes between cache calls.
CacheTick ==
    /\ now + CacheTickStep <= MaxCacheTime
    /\ now' = now + CacheTickStep
    /\ UNCHANGED <<cbVars, pmVars, turnVars, sessVars, cacheVars, ioVars>>

\* ---------------------- cache.py over the remote store, write by write
\* With the remote store every RedisManager call is an await on the
\* network: between two of them other coroutines run and time passes.
\* What caller c's starting a call, or time passing, does to the calls in
\* progress: they are no longer undisturbed.
Disturbed(c) ==
    [x \in CacheCallers |->
        IF x # c /\ cop[x].pc # "idle" THEN [cop[x] EXCEPT !.quiet = FALSE]
        ELSE cop[x]]

\* A caller enters set, get, invalidate or clear (up to the first await).
W_Start(c, op, q, r) ==
    /\ cop[c].pc = "idle"
    /\ nOps < MaxCacheCalls
    /\ nOps' = nOps + 1
    /\ cop' = [Disturbed(c) EXCEPT ![c] =
                  [IdleCall EXCEPT
                      !.pc = CASE op = "set" -> "set_resp"
                               [] op = "get" -> "smembers"
                               [] op = "invalidate" -> "del_resp"
                               [] OTHER -> "clear_members",
                      !.op = op,
                      !.q = IF op = "clear" THEN "" ELSE q,
                      !.r = IF op = "set" THEN r ELSE "",
                      !.quiet = \A x \in CacheCallers \ {c} : cop[x].pc = "idle"]]
    /\ UNCHANGED <<now, useFallback, resp, emb, index, cres, notCache>>

\* set, line 183: redis.set(cache_key, ..., ttl=ttl)
W_SetResp(c) ==
    /\ cop[c].pc = "set_resp"
    /\ resp' = [resp EXCEPT ![Digest(cop[c].q)] =
                   [present |-> TRUE, query |-> cop[c].q,
                    response |-> cop[c].r,
                    expires |-> now + ClassifyTtl(cop[c].q)]]
    /\ cop' = [cop EXCEPT ![c].pc = "set_emb"]
    /\ UNCHANGED <<now, useFallback, emb, index, cres, nOps, notCache>>

\* set, line 184: redis.set(emb_key, ..., ttl=ttl)
W_SetEmb(c) ==
    /\ cop[c].pc = "set_emb"
    /\ emb' = [emb EXCEPT ![Digest(cop[c].q)] =
                  [present |-> TRUE, embedding |-> Embedding(cop[c].q),
                   expires |-> now + ClassifyTtl(cop[c].q)]]
    /\ cop' = [cop EXCEPT ![c].pc = "sadd"]
    /\ UNCHANGED <<now, useFallback, resp, index, cres, nOps, notCache>>

\* What a call that has returned leaves in cres: the call, whether it ran
\* undisturbed, and what it returned.
Returned(c, result) ==
    [op |-> cop[c].op, query |-> cop[c].q, at |-> now,
     quiet |-> cop[c].quiet, result |-> result]

\* set, lines 187-192: redis.sadd(INDEX_KEY, key_hash); return True
W_Sadd(c) ==
    /\ cop[c].pc = "sadd"
    /\ index' = index \cup {Digest(cop[c].q)}
    /\ cres' = Returned(c, [ok |-> TRUE])
    /\ cop' = [cop EXCEPT ![c] = IdleCall]
    /\ UNCHANGED <<now, useFallback, resp, emb, nOps, notCache>>

\* What get returns.
GetMiss == [hit |-> FALSE, response |-> "", similarity |-> 0,
            original_query |-> ""]

\* get, lines 84-87: redis.smembers(INDEX_KEY); an empty index is a miss.
W_Smembers(c) ==
    /\ cop[c].pc = "smembers"
    /\ IF index = {}
       THEN /\ cres' = Returned(c, GetMiss)
            /\ cop' = [cop EXCEPT ![c] = IdleCall]
       ELSE /\ cop' = [cop EXCEPT ![c].pc = "scan", ![c].keys = index]
            /\ cres' = cres
    /\ UNCHANGED <<now, useFallback, resp, emb, index, nOps, notCache>>

\* get, lines 92-107: one round of the loop over cached_keys, for the
\* member d the set's iteration gives next.
W_ReadEmb(c, d) ==
    /\ cop[c].pc = "scan"
    /\ d \in cop[c].keys
    /\ LET similarity == SimilarityTo(cop[c].q, d, now)
           better == /\ similarity > cop[c].best_sim
                     /\ similarity >= SimilarityThreshold
           left == cop[c].keys \ {d}
           best == IF better THEN d ELSE cop[c].best
       IN IF left = {} /\ best = ""
          THEN /\ cres' = Returned(c, GetMiss)
               /\ cop' = [cop EXCEPT ![c] = IdleCall]
          ELSE /\ cop' = [cop EXCEPT
                             ![c].keys = left,
                             ![c].best = best,
                             ![c].best_sim =
                                 IF better THEN similarity ELSE @,
                             ![c].pc = IF left = {} THEN "fetch" ELSE "scan"]
               /\ cres' = cres
    /\ UNCHANGED <<now, useFallback, resp, emb, index, nOps, notCache>>

\* get, lines 109-133: redis.get(cache_key) for best_match.
W_Fetch(c) ==
    /\ cop[c].pc = "fetch"
    /\ LET data == RedisGet(resp[cop[c].best], useFallback, now) IN
       cres' = Returned(c,
                  IF data.present
                  THEN [hit |-> TRUE, response |-> data.response,
                        similarity |-> Round3(cop[c].best_sim),
                        original_query |-> data.query]
                  ELSE GetMiss)
    /\ cop' = [cop EXCEPT ![c] = IdleCall]
    /\ UNCHANGED <<now, useFallback, resp, emb, index, nOps, notCache>>

\* invalidate, line 207: redis.delete(cache_key)
W_DelResp(c) ==
    /\ cop[c].pc = "del_resp"
    /\ resp' = [resp EXCEPT ![Digest(cop[c].q)] = NoRecord]
    /\ cop' = [cop EXCEPT ![c].pc = "del_emb"]
    /\ UNCHANGED <<now, useFallback, emb, index, cres, nOps, notCache>>

\* invalidate, line 208: redis.delete(emb_key)
W_DelEmb(c) ==
    /\ cop[c].pc = "del_emb"
    /\ emb' = [emb EXCEPT ![Digest(cop[c].q)] = NoRecord]
    /\ cop' = [cop EXCEPT ![c].pc = "srem"]
    /\ UNCHANGED <<now, useFallback, resp, index, cres, nOps, notCache>>

\* invalidate, lines 209-212: redis.srem(INDEX_KEY, key_hash); return True
W_Srem(c) ==
    /\ cop[c].pc = "srem"
    /\ index' = index \ {Digest(cop[c].q)}
    /\ cres' = Returned(c, [ok |-> TRUE])
    /\ cop' = [cop EXCEPT ![c] = IdleCall]
    /\ UNCHANGED <<now, useFallback, resp, emb, nOps, notCache>>

\* clear, line 226: redis.smembers(INDEX_KEY)
W_ClearMembers(c) ==
    /\ cop[c].pc = "clear_members"
    /\ cop' = [cop EXCEPT ![c].keys = index,
                          ![c].pc = IF index = {} THEN "del_index"
                                    ELSE "clear_resp"]
    /\ UNCHANGED <<now, useFallback, resp, emb, index, cres, nOps, notCache>>

\* clear, line 231: redis.delete of the response record of the member d
\* the loop has come to.
W_ClearResp(c, d) ==
    /\ cop[c].pc = "clear_resp"
    /\ d \in cop[c].keys
    /\ resp' = [resp EXCEPT ![d] = NoRecord]
    /\ cop' = [cop EXCEPT ![c].best = d, ![c].pc = "clear_emb"]
    /\ UNCHANGED <<now, useFallback, emb, index, cres, nOps, notCache>>

\* clear, lines 232-233: redis.delete of the member's embedding record.
W_ClearEmb(c) ==
    /\ cop[c].pc = "clear_emb"
    /\ emb' = [emb EXCEPT ![cop[c].best] = NoRecord]
    /\ LET left == cop[c].keys \ {cop[c].best} IN
       cop' = [cop EXCEPT ![c].keys = left,
                          ![c].best = "",
                          ![c].deleted = @ + 1,
                          ![c].pc = IF left = {} THEN "del_index"
                                    ELSE "clear_resp"]
    /\ UNCHANGED <<now, useFallback, resp, index, cres, nOps, notCache>>

\* clear, lines 235-239: redis.delete(INDEX_KEY); return deleted
W_DelIndex(c) ==
    /\ cop[c].pc = "del_index"
    /\ index' = {}
    /\ cres' = Returned(c, [ok |-> TRUE, deleted |-> cop[c].deleted])
    /\ cop' = [cop EXCEPT ![c] = IdleCall]
    /\ UNCHANGED <<now, useFallback, resp, emb, nOps, notCache>>

\* Time passes, also while a call waits for the store's answer.
W_Tick ==
    /\ now + CacheTickStep <= MaxCacheTime
    /\ now' = now + CacheTickStep
    /\ cop' = Disturbed(0)
    /\ UNCHANGED <<useFallback, resp, emb, index, cres, nOps, notCache>>

\* ----------------------------------------------- one breaker (SpecCB)
NoOp == [op |-> "none", ret |-> TRUE, from |-> "closed", at |-> 0]

CBIdle ==
    /\ cb = NewCircuit(0)
    /\ cbCfg = DefaultConfig
    /\ cbLast = NoOp
    /\ closedRun = 0

\* A breaker constructed with any thresholds the constructor accepts.
CBInit ==
    /\ cb = NewCircuit(0)
    /\ cbCfg \in {CircuitConfig(ft, DefaultRecoveryTimeout, st) :
                    ft \in 1..DefaultFailureThreshold,
                    st \in DefaultSuccessThreshold..MaxSuccessThreshold}
    /\ cbLast = NoOp
    /\ closedRun = 0

CB_IsAvailable ==
    LET r == IsAvailable(cb, cbCfg, now) IN
    /\ cb' = r.c
    /\ cbLast' = [op |-> "is_available", ret |-> r.ok, from |-> cb.state, at |-> now]
    /\ closedRun' = 0
    /\ UNCHANGED <<now, cbCfg, notCB>>

CB_RecordSuccess ==
    /\ cb' = RecordSuccess(cb, cbCfg, now)
    /\ cbLast' = [op |-> "record_success", ret |-> TRUE, from |-> cb.state, at |-> now]
    /\ closedRun' = 0
    /\ UNCHANGED <<now, cbCfg, notCB>>

CB_RecordFailure ==
    /\ cb.consecutive_failures < MaxFailures
    /\ cb' = RecordFailure(cb, cbCfg, now)
    /\ cbLast' = [op |-> "record_failure", ret |-> TRUE, from |-> cb.state, at |-> now]
    /\ closedRun' = IF closedRun > 0 THEN closedRun + 1
                    ELSE IF cb.state = "closed" THEN 1 ELSE 0
    /\ UNCHANGED <<now, cbCfg, notCB>>

CB_Reset ==
    /\ cb' = ResetCircuit(cb, now)
    /\ cbLast' = [op |-> "reset", ret |-> TRUE, from |-> cb.state, at |-> now]
    /\ closedRun' = 0
    /\ UNCHANGED <<now, cbCfg, notCB>>

InitCB == now = 0 /\ CBInit /\ PMInit /\ TurnInit /\ SessInit /\ CacheInit /\ IoInit

NextCB ==
    \/ CB_IsAvailable
    \/ CB_RecordSuccess
    \/ CB_RecordFailure
    \/ CB_Reset
    \/ Tick

SpecCB == InitCB /\ [][NextCB]_vars

\* ------------------------------------------------- breaker properties

\* C5 as stated: after every operation, consecutive_failures >=
\* failure_threshold implies state = OPEN.
C5_OpenAtThreshold ==
    cb.consecutive_failures >= cbCfg.failure_threshold => cb.state = "open"

\* C5 amended: after every operation, consecutive_failures >=
\* failure_threshold implies the breaker is OPEN or HALF_OPEN (is_available
\* moves OPEN to HALF_OPEN and leaves consecutive_failures as it is).
C5_NotClosedAtThreshold ==
    cb.consecutive_failures >= cbCfg.failure_threshold
        => cb.state \in {"open", "half_open"}

\* C5's case: a recovery probe was admitted with the failure count still
\* at the threshold.
C5_Witness ==
    /\ cbLast.op = "is_available"
    /\ cbLast.from = "open"
    /\ cb.state = "half_open"
    /\ cb.consecutive_failures >= cbCfg.failure_threshold

TimeoutElapsed == now - cb.state_changed_at >= cbCfg.recovery_timeout

\* C6: failure_threshold consecutive record_failure calls on a CLOSED
\* breaker open it; an OPEN breaker keeps the time of its opening and
\* is_available answers false, staying OPEN, until recovery_timeout has
\* elapsed since then; the first is_available after that answers true and
\* moves to HALF_OPEN; the record_success that reaches success_threshold in
\* HALF_OPEN moves to CLOSED with consecutive_failures = 0, an earlier one
\* stays HALF_OPEN.
C6_Lifecycle ==
    /\ [](closedRun >= cbCfg.failure_threshold => cb.state = "open")
    /\ [][(cb.state # "open" /\ cb'.state = "open")
            => cb'.state_changed_at = now]_vars
    /\ [][(cb.state = "open" /\ cb'.state = "open")
            => cb'.state_changed_at = cb.state_changed_at]_vars
    /\ [][CB_IsAvailable =>
            /\ (cb.state = "open" /\ ~TimeoutElapsed)
                 => (cbLast'.ret = FALSE /\ cb'.state = "open")
            /\ (cb.state = "open" /\ TimeoutElapsed)
                 => (cbLast'.ret = TRUE /\ cb'.state = "half_open")]_vars
    /\ [][CB_RecordSuccess =>
            /\ (cb.state = "half_open"
                  /\ cb.half_open_successes + 1 >= cbCfg.success_threshold)
                 => (cb'.state = "closed" /\ cb'.consecutive_failures = 0)
            /\ (cb.state = "half_open"
                  /\ cb.half_open_successes + 1 < cbCfg.success_threshold)
                 => cb'.state = "half_open"]_vars

\* C6's case: a breaker with the default failure threshold has been opened,
\* probed after the timeout and closed again by a success.
C6_Witness ==
    /\ cbCfg.failure_threshold = DefaultFailureThreshold
    /\ cbLast.op = "record_success"
    /\ cbLast.from = "half_open"
    /\ cb.state = "closed"
    /\ cb.consecutive_failures = 0
    /\ cb.state_changed_at >= DefaultRecoveryTimeout

\* ------------------------------------------- provider manager (SpecPM)
InitPM == now = 0 /\ CBIdle /\ PMInit /\ TurnInit /\ SessInit /\ CacheInit /\ IoInit

NextPM ==
    \/ \E p \in ProviderNames, en \in BOOLEAN : PM_Register(p, en)
    \/ PM_ExecuteStart
    \/ PM_CallStep
    \/ PM_Finish
    \/ PM_ResetAll
    \/ Tick

SpecPM == InitPM /\ [][NextPM]_vars

\* A call that has begun keeps running: the loop is synchronous code and
\* every provider call returns or times out.
FairSpecPM == SpecPM /\ WF_vars(PM_CallStep)

\* ------------------------------------------ provider manager properties
Count(seq, x) == Cardinality({i \in 1..Len(seq) : seq[i] = x})

CallDone == pmPc \in {"returned", "raised"}

\* C1: a call to execute terminates, returning one provider's result or
\* raising AllProvidersFailedError, and invokes each provider at most once,
\* also when two or more providers fail with their circuits still CLOSED.
C1_ExecuteTerminates ==
    /\ [](\A p \in ProviderNames : Count(invoked, p) <= 1)
    /\ (pmPc = "loop") ~> CallDone

\* C2: when execute returns a result, the result is that of the one
\* provider invoked last and once, record_success has been applied to its
\* circuit, current_provider is that provider, and fallback_count is one
\* more than before the call exactly when the provider differs from the
\* current_provider of before the call.
C2_SuccessBookkeeping ==
    pmPc = "returned" =>
        /\ invoked # <<>>
        /\ pmResult.provider = invoked[Len(invoked)]
        /\ Count(invoked, pmResult.provider) = 1
        /\ Len(outcomes) = Len(invoked)
        /\ \A i \in 1..Len(outcomes) :
              outcomes[i].rec = "success" <=> i = Len(outcomes)
        /\ circuits[pmResult.provider].consecutive_failures = 0
        /\ circuits[pmResult.provider].state = "closed"
        /\ current = pmResult.provider
        /\ fallback_count =
              IF pmResult.provider # pmPre.current
              THEN pmPre.fallback_count + 1
              ELSE pmPre.fallback_count

\* C2's case: a call returned the result of a provider other than the
\* current one after the current one had failed.
C2_Witness ==
    /\ pmPc = "returned"
    /\ Len(invoked) >= 2
    /\ invoked[1] = pmPre.current
    /\ pmResult.provider # pmPre.current
    /\ fallback_count = pmPre.fallback_count + 1

\* C3: execute never invokes a provider that is disabled or whose circuit
\* is OPEN with the recovery timeout not elapsed; if every registered
\* provider is in that condition when the call begins, the call raises
\* AllProvidersFailedError with no provider invoked and no failure recorded.
C3_NeverInvokesBlocked ==
    /\ [][PM_Invoke => ~Blocked(pmProvider, enabled, circuits, now)]_vars
    /\ []((pmPc # "idle" /\ pmPre.allBlocked) =>
            /\ pmPc \in {"loop", "raised"}
            /\ pmProvider = None
            /\ invoked = <<>>
            /\ outcomes = <<>>)
    /\ [][(pmPc = "loop" /\ pmPre.allBlocked /\ pmPc' # pmPc)
            => (pmPc' = "raised" /\ circuits' = circuits)]_vars

\* C3's case: a call found every registered provider disabled or OPEN within
\* its timeout, with at least one OPEN circuit among them, and raised.
C3_Witness ==
    /\ pmPc = "raised"
    /\ pmPre.allBlocked
    /\ invoked = <<>>
    /\ \E p \in Registered : enabled[p] /\ circuits[p].state = "open"
    /\ \E p \in Registered : ~enabled[p]

\* C4: a failed vendor call of the primary STT provider (deepgram) reaches
\* the manager as a failure: record_failure is made on its circuit and the
\* call does not return that provider's result; three such failures in a
\* row leave the primary's circuit OPEN.
C4_PrimaryFailureRecorded ==
    /\ \A i \in 1..Len(outcomes) :
          (invoked[i] = "deepgram" /\ outcomes[i].vendor # "ok")
              => outcomes[i].rec = "failure"
    /\ (pmPc = "returned" /\ outcomes[Len(outcomes)].vendor # "ok")
          => pmResult.provider # "deepgram"

\* ------------------------------------------------ one connection (SpecTurn)
\* time.time() is positive: 0 in silence_start_time means "not started".
InitTurn ==
    now = TickStep /\ CBIdle /\ PMInit /\ TurnInit /\ SessInit /\ CacheInit /\ IoInit

NextTurn ==
    \/ \E m \in ClientMessages : ClientSend(m)
    \/ H_ReceiveText
    \/ H_ReceiveBytes
    \/ \E c \in ConcatOutcomes : T_Concat(c)
    \/ \E o \in SttOutcomes : T_Stt(o)
    \/ \E o \in SttOutcomes : T_SttChunk(o)
    \/ T_Respond
    \/ \E hit \in BOOLEAN, o \in TtsOutcomes : T_Cache(hit, o)
    \/ \E needs \in BOOLEAN : T_Search(needs)
    \/ \E tok \in Tokens : T_Token(tok)
    \/ \E o \in TtsOutcomes : T_Tts(o)
    \/ T_StreamEnd
    \/ \E o \in TtsOutcomes : T_TtsFinal(o)
    \/ T_Finalize
    \/ Tick

SpecTurn == InitTurn /\ [][NextTurn]_vars

\* ------------------------------------------------------ turn properties
TurnReturned == hpc = "recv" /\ turn.ended # "none"

HistoryGrowth == Len(sess.conversation_history) - turn.hist_before

\* C7: when the pipeline of a turn has returned, conversation_history is
\* as long as before the turn or longer by exactly 2 (a user message, then
\* an assistant message); never longer by 1.
C7_HistoryGrowsByZeroOrTwo ==
    TurnReturned =>
        \/ HistoryGrowth = 0
        \/ /\ HistoryGrowth = 2
           /\ sess.conversation_history[turn.hist_before + 1].role = "user"
           /\ sess.conversation_history[turn.hist_before + 2].role = "assistant"

\* C8: when a run of _process_accumulated_audio has returned, however the
\* turn ended, the orchestrator's state is listening or error, never
\* thinking or speaking.
C8_StateAfterPipeline ==
    TurnReturned => sess.state \in {"listening", "error"}

\* A turn that went through thinking and speaking has returned.
C8_Witness ==
    /\ TurnReturned
    /\ turn.ended = "done"
    /\ turn.first_audio_sent
    /\ sess.state = "listening"

\* C9: a turn whose transcript hits the semantic cache completes without
\* the search decision and without an LLM call: one audio frame is sent,
\* the cached response is the assistant message appended to history, the
\* metrics request ends with success, no error frame is sent, and the state
\* ends listening.
C9_CacheHitCompletes ==
    (TurnReturned /\ turn.cache_hit) =>
        /\ turn.search_decisions = 0
        /\ turn.llm_calls = 0
        /\ Count(log, "audio") = 1
        /\ HistoryGrowth = 2
        /\ sess.conversation_history[Len(sess.conversation_history)]
               = AssistantMessage(<<"cached">>)
        /\ turn.metrics = "success"
        /\ Count(log, "error") = 0
        /\ sess.state = "listening"

IsFrame(x) == x # "client_barge_in"

FramesAfter(i) == SelectSeq(SubSeq(log, i + 1, Len(log)), IsFrame)

\* C10: when the client sends a fragment of more than 500 bytes, or an
\* interrupt or cancel_audio message, while a turn of its connection is
\* speaking, the next frame the client gets is interrupt_ack, no further
\* audio frame of the turn is sent, and the turn does not append its
\* assistant message.
C10_BargeInHandledFirst ==
    \A i \in 1..Len(log) :
        log[i] = "client_barge_in" =>
            /\ FramesAfter(i) # <<>> => Head(FramesAfter(i)) = "interrupt_ack"
            /\ Count(FramesAfter(i), "audio") = 0
            /\ TurnReturned =>
                   \A k \in (turn.hist_before + 1)..Len(sess.conversation_history) :
                       sess.conversation_history[k].role # "assistant"

\* ------------------------------- the orchestrator with a second caller
\* handle_interrupt is a coroutine of the orchestrator object: a task other
\* than the one running the turn may call it whenever the turn is suspended
\* at the await of a token or of a TTS call.
InterruptPoints == {"llm", "tts", "tts_final"}

O_HandleInterrupt ==
    /\ hpc \in InterruptPoints
    /\ ~sess.interrupted
    /\ LET h == HandleInterrupt(sess) IN
       /\ sess' = h.s
       /\ log' = log \o h.frames
    /\ UNCHANGED <<now, inbox, hpc, turn, nSent, notTurn>>

\* The client sends only while the handler waits in receive().
NextInterrupt ==
    \/ \E m \in ClientMessages : hpc = "recv" /\ ClientSend(m)
    \/ H_ReceiveText
    \/ H_ReceiveBytes
    \/ \E c \in ConcatOutcomes : T_Concat(c)
    \/ \E o \in SttOutcomes : T_Stt(o)
    \/ \E o \in SttOutcomes : T_SttChunk(o)
    \/ T_Respond
    \/ \E hit \in BOOLEAN, o \in TtsOutcomes : T_Cache(hit, o)
    \/ \E needs \in BOOLEAN : T_Search(needs)
    \/ \E tok \in Tokens : T_Token(tok)
    \/ \E o \in TtsOutcomes : T_Tts(o)
    \/ T_StreamEnd
    \/ \E o \in TtsOutcomes : T_TtsFinal(o)
    \/ T_Finalize
    \/ O_HandleInterrupt
    \/ Tick

SpecInterrupt == InitTurn /\ [][NextInterrupt]_vars

NoAssistantCommitted ==
    \A k \in (turn.hist_before + 1)..Len(sess.conversation_history) :
        sess.conversation_history[k].role # "assistant"

\* C11: a turn during whose LLM/TTS phase the interrupted flag was set
\* appends no assistant message to conversation_history, sends no final
\* assistant transcript and writes nothing to the semantic cache, on the
\* concatenated-audio path and on the per-fragment path alike.
C11_InterruptedTurnNotCommitted ==
    (TurnReturned /\ sess.interrupted /\ turn.path \in {"stream", "direct"}) =>
        /\ NoAssistantCommitted
        /\ Count(log, "transcript:assistant") = 0
        /\ ~turn.cached

\* The same on the concatenated-audio path alone.
C11_StreamPathNotCommitted ==
    (TurnReturned /\ sess.interrupted /\ turn.path = "stream") =>
        /\ NoAssistantCommitted
        /\ Count(log, "transcript:assistant") = 0
        /\ ~turn.cached

\* ------------------------------------------- the session store (SpecSess)
\* redis_manager.connect at startup decides which store is used.
InitSess ==
    /\ now = 0
    /\ CBIdle /\ PMInit /\ TurnInit /\ CacheInit /\ IoInit
    /\ useFallback \in BOOLEAN
    /\ store = [sid \in SessionIds |-> NoSession]
    /\ conns = [c \in ConnIds |-> ClosedConn]
    /\ nTurns = 0
    /\ nAccepts = 0
    /\ lastUpd = NoUpdate

NextSess ==
    \/ \E c \in ConnIds, sid \in SessionIds : C_Accept(c, sid)
    \/ \E c \in ConnIds, sid \in SessionIds : C_Start(c, sid)
    \/ \E c \in ConnIds : C_TurnStart(c)
    \/ \E c \in ConnIds : C_TurnEnd(c)
    \/ \E c \in ConnIds : C_Disconnect(c)
    \/ \E c \in ConnIds, sid \in SessionIds : U_Get(c, sid)
    \/ \E c \in ConnIds, sid \in SessionIds : U_Set(c, sid)
    \/ CleanupExpired
    \/ SessionTick

SpecSess == InitSess /\ [][NextSess]_vars


\* ------------------------------------------------ session store properties
Stored(sid) == GetSession(store, useFallback, sid, now)

\* Connection c is the only one that was ever accepted.
OnlyConnection(c) == \A d \in ConnIds \ {c} : conns[d] = ClosedConn

Disconnected(c) == conns[c].pc = "closed" /\ conns[c].flushed

\* C12: within the TTL, after a connection on a session id has disconnected,
\* the conversation_history in the session store holds every message the
\* orchestrators of that and the earlier connections committed, in order
\* (and the next connection starts from that stored history).
C12_HistorySurvivesDisconnect ==
    \A c \in ConnIds :
        (Disconnected(c) /\ OnlyConnection(c) /\ now < SessionTtl) =>
            /\ Stored("s1").present
            /\ Stored("s1").conversation_history = conns[c].conversation_history

\* C13: at no time are two turn pipelines running for one session id,
\* whichever connections they belong to.
C13_OneTurnPerSession ==
    Cardinality({c \in ConnIds : conns[c].processing_audio}) <= 1


\* C18: a session that got no update for longer than the TTL is not
\* returned by get_session, whichever store is in use.
C18_ExpiredSessionNotReturned ==
    \A sid \in SessionIds :
        (store[sid].present /\ now - store[sid].last_activity > SessionTtl)
            => ~Stored(sid).present

\* The same for the remote store alone.
C18_RemoteStoreExpires ==
    ~useFallback => C18_ExpiredSessionNotReturned

\* C19: when update_session(id, add_message = m) returns a session,
\* get_session(id) gives the history the call read followed by m, with
\* last_activity and the TTL refreshed; for an unknown id it returns nothing
\* and writes no record.
C19_UpdateAppends ==
    [][\A c \in ConnIds, sid \in SessionIds :
          U_Set(c, sid) =>
              LET req == Head(conns[c].todo)
                  session == conns[c].read.session
                  after == GetSession(store', useFallback, sid, now')
              IN IF session.present
                 THEN /\ lastUpd'.kind = "updated"
                      /\ after.present
                      /\ after.conversation_history
                             = session.conversation_history \o req.add
                      /\ after.last_activity = now
                      /\ after.expires = now + SessionTtl
                 ELSE /\ lastUpd'.kind = "unknown"
                      /\ store' = store]_vars

\* An add_message update on a non-empty stored history has returned.
C19_Witness ==
    /\ lastUpd.kind = "updated"
    /\ lastUpd.req.add # <<>>
    /\ lastUpd.before # <<>>
    /\ Stored(lastUpd.sid).conversation_history
           = Append(lastUpd.before, lastUpd.req.add[1])

\* update_session has returned nothing for a session that is gone.
UnknownUpdated == lastUpd.kind = "unknown"


\* ------------------------------------------------ provider failure in a turn
\* C14: when the TTS of a sentence fails, the turn ends there and an error
\* frame is sent to the client.
C14_TtsFailureEndsTurn ==
    [][\A o \in TtsFailed :
          (T_Tts(o) \/ T_TtsFinal(o)) =>
              /\ hpc' = "recv"
              /\ \E i \in Len(log) + 1 .. Len(log') : log'[i] = "error"]_vars


\* What the claim asks of the step in which an STT call raises: the
\* pipeline is back at the receive loop, listening, with the history as it
\* was, the request ended as failed and nothing called after the STT.
SttFailureHandled ==
    /\ hpc' = "recv"
    /\ sess'.state = "listening"
    /\ sess'.conversation_history = sess.conversation_history
    /\ turn'.metrics = "failed"
    /\ turn'.llm_calls = 0 /\ turn'.search_decisions = 0
    /\ ~turn'.cache_hit /\ ~turn'.first_audio_sent

\* C15: when an STT call of a turn raises, the turn ends there: listening,
\* conversation_history unchanged, the metrics request ended as failed, and
\* no cache lookup, LLM call or TTS call for the turn.
C15_SttFailureEndsTurn ==
    [][(T_Stt("raise") \/ T_SttChunk("raise")) => SttFailureHandled]_vars

\* The same for the STT call of process_turn_with_streaming alone.
C15_StreamSttFailure == [][T_Stt("raise") => SttFailureHandled]_vars


\* ------------------------- a turn with its STT manager (SpecStt)
\* websocket.py lines 39-42, at import: Deepgram is registered first and is
\* the current provider; AssemblyAI is registered when it has an API key.
WiredProviders == { <<"deepgram">>, <<"deepgram", "assemblyai">> }

InitStt ==
    /\ now = TickStep /\ CBIdle /\ TurnInit /\ SessInit /\ CacheInit /\ IoInit
    /\ providers \in WiredProviders
    /\ enabled = [p \in ProviderNames |-> TRUE]
    /\ circuits = [p \in ProviderNames |-> NewCircuit(0)]
    /\ current = "deepgram"
    /\ fallback_count = 0
    /\ pmPc = "idle" /\ pmProvider = None /\ tried = {}
    /\ errors = <<>> /\ invoked = <<>> /\ outcomes = <<>>
    /\ pmResult = NoResult /\ pmPre = NoPre

\* What the turn gets from `await self.stt_manager.execute(...)`: the
\* exception, or the transcript the provider returned.  A vendor answers
\* a request it accepts with any transcript, the empty one included.
SttGiven ==
    IF pmPc = "raised" THEN {"raise"}
    ELSE IF pmResult.value = Empty THEN {"empty"}
    ELSE {"text", "char", "empty"}

\* Lines 546-548 and 240-241: the turn calls stt_manager.execute.
S_Execute ==
    /\ \/ hpc = "stt"
       \/ /\ hpc = "stt_chunk"
          /\ turn.chunks[turn.next_chunk].size >= MinAudioBytes
    /\ PM_ExecuteStart

\* process_turn_with_streaming goes on with what execute gave.
S_Stt(o) == pmPc \in {"returned", "raised"} /\ o \in SttGiven /\ T_Stt(o)

\* _transcribe_chunks_individually: a chunk under 1000 bytes is skipped
\* without a call; otherwise the loop goes on with what execute gave.
S_SttChunkSkip == pmPc = "idle" /\ T_SttChunk("empty")

S_SttChunk(o) ==
    /\ o \in SttGiven
    /\ SttChunkStep(o)
    /\ FinishStep
    /\ UNCHANGED <<now, inbox, nSent, cbVars, sessVars, cacheVars, ioVars>>

\* The call of process_turn_with_streaming is over once the turn has it.
S_Finish == hpc \notin {"stt", "stt_chunk"} /\ PM_Finish

\* The client of this specification: speech in fragments under and over
\* the 1000 bytes a chunk needs to be transcribed, the last one large
\* enough to start the turn at once, and an interrupt.
SttMessages ==
    { Fragment(400, TRUE, "speech"), Fragment(1200, TRUE, "speech"),
      Fragment(12000, TRUE, "speech"), Control("interrupt") }

NextStt ==
    \/ \E m \in SttMessages : ClientSend(m)
    \/ H_ReceiveText
    \/ H_ReceiveBytes
    \/ \E c \in ConcatOutcomes : T_Concat(c)
    \/ S_Execute
    \/ PM_Invoke
    \/ \E v \in VendorOutcomes : PM_ReturnResult(v)
    \/ \E o \in SttOutcomes : S_Stt(o)
    \/ S_SttChunkSkip
    \/ \E o \in SttOutcomes : S_SttChunk(o)
    \/ S_Finish
    \/ T_Respond
    \/ \E hit \in BOOLEAN, o \in TtsOutcomes : T_Cache(hit, o)
    \/ \E needs \in BOOLEAN : T_Search(needs)
    \/ \E tok \in Tokens : T_Token(tok)
    \/ \E o \in TtsOutcomes : T_Tts(o)
    \/ T_StreamEnd
    \/ \E o \in TtsOutcomes : T_TtsFinal(o)
    \/ T_Finalize

SpecStt == InitStt /\ [][NextStt]_vars


\* A step in which a turn ends on an empty or one-character transcript.
EmptyTurnEnds == hpc \in {"stt", "respond"} /\ turn'.ended = "empty"

\* C16: a turn whose transcript is empty or one character long ends
\* silently: listening, conversation_history unchanged, no error frame, the
\* request neither counted as failed nor left in flight, and no
\* record_failure on any STT circuit.
C16_EmptyTranscriptSilent ==
    [][EmptyTurnEnds =>
          /\ hpc' = "recv"
          /\ sess'.state = "listening"
          /\ sess'.conversation_history = sess.conversation_history
          /\ Len(sess'.conversation_history) = turn.hist_before
          /\ \A i \in Len(log) + 1 .. Len(log') : log'[i] # "error"
          /\ turn'.metrics \notin {"in_flight", "failed"}
          /\ circuits' = circuits
          /\ \A i \in 1..Len(outcomes) : outcomes[i].rec # "failure"
          /\ \A p \in ProviderNames : circuits'[p].consecutive_failures = 0]_vars

\* A turn of process_turn_with_streaming has ended on the empty transcript
\* Deepgram's service returns for a vendor error.
C16_Witness ==
    /\ TurnReturned /\ turn.ended = "empty" /\ turn.path = "stream"
    /\ turn.metrics = "dropped"
    /\ pmPc = "returned" /\ pmResult.value = Empty
    /\ outcomes # <<>>
    /\ outcomes[Len(outcomes)].vendor = "http_error"
    /\ outcomes[Len(outcomes)].rec = "success"

\* A turn of the chunk-by-chunk path has ended on a one-character transcript.
C16_DirectWitness ==
    /\ TurnReturned /\ turn.ended = "empty" /\ turn.path = "chunks"
    /\ turn.transcript = <<"char">>


\* ------------------------------------------------ the frames of a turn
\* `log` holds the frames sent since the handler took its last message.
IsTranscriptOrAudio(x) ==
    x \in {"transcript:user", "transcript:assistant:interim",
           "transcript:assistant", "audio", "audio_response"}

TurnFrames == SelectSeq(log, IsTranscriptOrAudio)

\* C17: within one turn the user transcript update is the first of the
\* transcript and audio frames; an interim assistant transcript update
\* precedes the first audio frame; audio frames are sent in the order in
\* which their sentences were completed; and the final assistant
\* transcript update is sent before end_request finalizes the metrics.
C17_FrameOrder ==
    /\ TurnFrames # <<>> => Head(TurnFrames) = "transcript:user"
    /\ \A i \in 1..Len(log) :
          log[i] \in {"audio", "audio_response"} =>
              \E j \in 1..(i - 1) : log[j] = "transcript:assistant:interim"
    /\ Len(turn.audio_sent) = Count(log, "audio")
    /\ \A i, j \in 1..Len(turn.audio_sent) :
          i < j => turn.audio_sent[i] < turn.audio_sent[j]
    /\ \A i \in 1..Len(log) :
          log[i] = "transcript:assistant" =>
              /\ turn.metrics = "success"
              /\ i <= turn.ended_at

\* A turn has finished after a complete sentence and a remainder, each
\* with its audio frame.
C17_Witness ==
    /\ TurnReturned /\ turn.ended = "done" /\ turn.path = "stream"
    /\ turn.audio_sent = <<1, 2>>
    /\ Count(log, "transcript:assistant:interim") = 3
    /\ Count(log, "transcript:assistant") = 1


\* --------------------------------------------- the semantic cache (SpecCache)
InitCache ==
    /\ now = 0
    /\ CBIdle /\ PMInit /\ TurnInit /\ CacheInit /\ IoInit
    /\ useFallback \in BOOLEAN
    /\ store = [sid \in SessionIds |-> NoSession]
    /\ conns = [c \in ConnIds |-> ClosedConn]
    /\ nTurns = 0 /\ nAccepts = 0 /\ lastUpd = NoUpdate

NextCache ==
    \/ \E q \in Queries, r \in Responses : CacheSet(q, r)
    \/ \E q \in Queries : CacheGet(q)
    \/ \E q \in Queries : CacheInvalidate(q)
    \/ CacheClear
    \/ CacheTick

SpecCache == InitCache /\ [][NextCache]_vars

\* The entries, live when the get ran, that reach the threshold for its query.
Matching(c) ==
    {q \in c.entries :
        Cosine(Embedding(q), Embedding(c.query)) >= SimilarityThreshold}

InitCacheOps == InitCache /\ useFallback = FALSE

CacheOpNames == {"set", "get", "invalidate", "clear"}

\* The queries and the response the callers pass.
CallQueries == {"qa", "qb", "qd"}
CallResponses == {"r1"}

NextCacheOps ==
    \/ \E c \in CacheCallers, op \in CacheOpNames, q \in CallQueries,
          r \in CallResponses : W_Start(c, op, q, r)
    \/ \E c \in CacheCallers : W_SetResp(c)
    \/ \E c \in CacheCallers : W_SetEmb(c)
    \/ \E c \in CacheCallers : W_Sadd(c)
    \/ \E c \in CacheCallers : W_Smembers(c)
    \/ \E c \in CacheCallers, d \in Digests : W_ReadEmb(c, d)
    \/ \E c \in CacheCallers : W_Fetch(c)
    \/ \E c \in CacheCallers : W_DelResp(c)
    \/ \E c \in CacheCallers : W_DelEmb(c)
    \/ \E c \in CacheCallers : W_Srem(c)
    \/ \E c \in CacheCallers : W_ClearMembers(c)
    \/ \E c \in CacheCallers, d \in Digests : W_ClearResp(c, d)
    \/ \E c \in CacheCallers : W_ClearEmb(c)
    \/ \E c \in CacheCallers : W_DelIndex(c)
    \/ W_Tick

SpecCacheOps == InitCacheOps /\ [][NextCacheOps]_vars


\* Caller c's get returns in this step, and no other cache call and no
\* expiry came between its steps.
QuietGetReturns(c) ==
    /\ cop[c].op = "get"
    /\ cop[c].quiet
    /\ cop'[c].pc = "idle"

HasResponse(d) == RedisGet(resp[d], useFallback, now).present

HasEmbedding(d) == RedisGet(emb[d], useFallback, now).present

\* The result is the response record of index member d, found for q.
IsHitOn(result, q, d) ==
    /\ result.hit
    /\ HasResponse(d)
    /\ result.response = resp[d].response
    /\ result.original_query = resp[d].query
    /\ result.similarity = Round3(SimilarityTo(q, d, now))

\* C21 as stated: a get that ran undisturbed returns the response of the
\* live entry of maximum similarity among those at or above the threshold,
\* and returns nothing only when no live entry reaches the threshold.
C21_BestLiveOrNoneReaches ==
    [][\A c \in CacheCallers :
          QuietGetReturns(c) =>
              LET q == cop[c].q
                  live == {d \in index : HasResponse(d) /\ HasEmbedding(d)}
                  reach == {d \in live :
                               SimilarityTo(q, d, now) >= SimilarityThreshold}
              IN IF cres'.result.hit
                 THEN \E d \in reach :
                         /\ IsHitOn(cres'.result, q, d)
                         /\ \A e \in reach : SimilarityTo(q, e, now)
                                                <= SimilarityTo(q, d, now)
                 ELSE reach = {}]_vars

\* What an undisturbed get does return: the response record of an index
\* member whose embedding record has the maximum similarity, at or above
\* the threshold, among the embedding records of the index members, and
\* nothing when no member's embedding reaches the threshold or when such a
\* best member has no response record in the store.
BestEmbeddingOrNone ==
    [][\A c \in CacheCallers :
          QuietGetReturns(c) =>
              LET q == cop[c].q
                  best == BestMatches(q, now)
              IN IF cres'.result.hit
                 THEN \E d \in best : IsHitOn(cres'.result, q, d)
                 ELSE \/ best = {}
                      \/ \E d \in best : ~HasResponse(d)]_vars


\* C23: in every state, those between the store writes of interleaved set,
\* invalidate and clear included, each digest in the index has both its
\* response record and its embedding record, or neither of them.
C23_IndexMembersWhole ==
    \A d \in index : HasResponse(d) <=> HasEmbedding(d)


\* An invalidate of q returns in this step.
Invalidates(q) ==
    /\ nOps' = nOps + 1
    /\ cres'.op = "invalidate"
    /\ cres'.query = q

\* After the step neither record of q is in the store and its digest is
\* not in the index.
EntryGone(q) ==
    /\ ~resp'[Digest(q)].present
    /\ ~emb'[Digest(q)].present
    /\ Digest(q) \notin index'

\* The step leaves the records and the index members of every other
\* digest as they were.
OthersKept(q) ==
    \A d \in Digests \ {Digest(q)} :
        /\ resp'[d] = resp[d]
        /\ emb'[d] = emb[d]
        /\ (d \in index') = (d \in index)

ReceivesInvalidFragment ==
    /\ hpc = "recv"
    /\ inbox # <<>>
    /\ Head(inbox).kind = "bytes"
    /\ ~Head(inbox).valid
    /\ inbox' = Tail(inbox)

\* C24: a fragment without the magic header is dropped in every
\* orchestrator state: audio_chunks, speech_detected, speech_chunk_count,
\* silence_start_time, the interrupted flag and the state are unchanged
\* and no pipeline is started.
C24_InvalidFragmentDropped ==
    [][ReceivesInvalidFragment =>
          /\ sess'.audio_chunks = sess.audio_chunks
          /\ sess'.speech_detected = sess.speech_detected
          /\ sess'.speech_chunk_count = sess.speech_chunk_count
          /\ sess'.silence_start_time = sess.silence_start_time
          /\ sess'.interrupted = sess.interrupted
          /\ sess'.state = sess.state
          /\ hpc' = "recv"]_vars

\* What does hold for such a fragment: no pipeline starts, and nothing of
\* the segmentation state or the state changes; only the interrupted flag
\* is cleared.
InvalidFragmentClearsFlagOnly ==
    [][ReceivesInvalidFragment =>
          /\ sess' = IF Head(inbox).size > MinFrameBytes
                     THEN ResetInterrupt(sess) ELSE sess
          /\ hpc' = "recv"]_vars


\* ------------------------------ process_audio_chunk by itself (SpecChunk)
\* The fragments process_audio_chunk is called with: sizes on both sides
\* of the barge-in size and of the large-chunk threshold.
ChunkFragments ==
    { Fragment(size, valid, analysis) :
        size \in {400, 500, 501, 1200, 9999, 10000, 10001},
        valid \in BOOLEAN,
        analysis \in {"speech", "silence", "unscored"} }

\* What has accumulated when the call comes: nothing, one fragment, or the
\* five fragments after which timer-based processing is one fragment away.
Accumulations ==
    { <<>>,
      <<Fragment(1200, TRUE, "speech")>>,
      [i \in 1..5 |-> Fragment(1200, TRUE, "unscored")] }

\* The orchestrator as the call can find it; silence has started only
\* where speech was detected before.
ChunkSessions ==
    { s \in { [NewSession EXCEPT
                  !.state = st, !.processing_audio = p, !.interrupted = i,
                  !.audio_chunks = acc,
                  !.speech_detected = acc # <<>>,
                  !.speech_chunk_count = Len(acc),
                  !.silence_start_time = sil] :
                st \in {"listening", "thinking", "speaking"},
                p \in BOOLEAN, i \in BOOLEAN, acc \in Accumulations,
                sil \in {0, TickStep - 3} } :
        s.silence_start_time = 0 \/ s.audio_chunks # <<>> }

InitChunk ==
    /\ now = TickStep /\ CBIdle /\ PMInit /\ SessInit /\ CacheInit /\ IoInit
    /\ sess \in ChunkSessions
    /\ inbox = <<>>
    /\ hpc = "call"
    /\ turn = NoTurn
    /\ log = <<>>
    /\ nSent = 0

\* process_audio_chunk(f), up to its return or to the first await of the
\* pipeline that _process_accumulated_audio starts.
P_Call(f) ==
    /\ hpc = "call"
    /\ inbox' = <<f>>
    /\ LET r == ProcessAudioChunk(sess, f, now) IN
       /\ log' = r.frames
       /\ IF r.run /\ PipelineStarts(r.s)
          THEN /\ sess' = TakeChunks(r.s)
               /\ turn' = [NoTurn EXCEPT
                              !.chunks = r.s.audio_chunks,
                              !.hist_before = Len(r.s.conversation_history)]
               /\ hpc' = "concat"
          ELSE sess' = r.s /\ turn' = NoTurn /\ hpc' = "returned"
    /\ UNCHANGED <<now, nSent, notTurn>>

NextChunk == \E f \in ChunkFragments : P_Call(f)

SpecChunk == InitChunk /\ [][NextChunk]_vars

\* process_audio_chunk(f) is called where segmentation is reached: not
\* speaking, no turn in progress.
Segmenting(f) ==
    /\ hpc = "call"
    /\ inbox' = <<f>>
    /\ sess.state # "speaking"
    /\ ~sess.processing_audio
    /\ f.valid

\* C25: a valid fragment of exactly the large threshold, like any larger
\* one, starts the pipeline at once on what has accumulated with it.
C25_ThresholdSizeProcessedAtOnce ==
    [][\A f \in ChunkFragments :
          (Segmenting(f) /\ f.size >= LargeChunkThreshold) =>
              /\ hpc' = "concat"
              /\ turn'.chunks = Append(sess.audio_chunks, f)]_vars

\* What holds: every valid fragment larger than the threshold starts the
\* pipeline at once; one of the threshold size or smaller starts it only
\* when the segmentation rules say so (the sixth unscored fragment, or
\* silence lasting long enough after speech).
LargerThanThresholdProcessedAtOnce ==
    [][\A f \in ChunkFragments :
          Segmenting(f) =>
              LET acc == Append(sess.audio_chunks, f)
                  by_rule ==
                      \/ /\ f.analysis = "unscored"
                         /\ Len(acc) >= MaxChunksFallback
                      \/ /\ f.analysis = "silence"
                         /\ sess.speech_detected
                         /\ sess.speech_chunk_count >= MinSpeechChunks
                         /\ sess.silence_start_time # 0
                         /\ 2 * (now - sess.silence_start_time)
                                >= SilenceDurationHalves
              IN /\ (hpc' = "concat") =
                        (f.size > LargeChunkThreshold \/ by_rule)
                 /\ hpc' = "concat" => turn'.chunks = acc]_vars


\* process_audio_chunk(f) is called while the state is speaking.
CalledWhileSpeaking(f) ==
    /\ hpc = "call"
    /\ inbox' = <<f>>
    /\ sess.state = "speaking"

\* C28: called in state speaking with a fragment of more than 500 bytes,
\* process_audio_chunk sets the interrupted flag, sends interrupt_ack, sets
\* the state to listening and leaves audio_chunks equal to that one
\* fragment with speech_detected true and speech_chunk_count 1; called with
\* a fragment of 500 bytes or fewer it changes nothing.
C28_BargeInBuffersFragment ==
    [][\A f \in ChunkFragments :
          CalledWhileSpeaking(f) =>
              IF f.size > BargeInBytes
              THEN /\ sess'.interrupted
                   /\ InSeq("interrupt_ack", log')
                   /\ sess'.state = "listening"
                   /\ sess'.audio_chunks = <<f>>
                   /\ sess'.speech_detected
                   /\ sess'.speech_chunk_count = 1
                   /\ hpc' = "returned"
              ELSE /\ sess' = sess
                   /\ log' = <<>>
                   /\ hpc' = "returned"]_vars

\* A call made in state speaking with five fragments accumulated has
\* returned after a barge-in: the 501-byte fragment is all that is
\* buffered.
C28_Witness ==
    /\ hpc = "returned"
    /\ inbox = <<Fragment(501, TRUE, "speech")>>
    /\ log = <<"interrupt_ack", StateFrame("listening")>>
    /\ sess.interrupted /\ sess.state = "listening"
    /\ sess.audio_chunks = inbox
    /\ sess.speech_chunk_count = 1


\* ------------------------- two callers of one manager's execute (SpecLock)
\* A coroutine calls execute: lines 130-133, up to `async with self._lock`.
L_Call(c) ==
    /\ callers[c] = "outside"
    /\ callers' = [callers EXCEPT ![c] = "waiting"]
    /\ UNCHANGED <<now, cbVars, pmVars, turnVars, sessVars, cacheVars,
                   remoteUp, rcall>>

\* asyncio.Lock: the lock is free, so the coroutine gets it and runs
\* lines 134-139.
L_Acquire(c) ==
    /\ callers[c] = "waiting"
    /\ \A x \in ExecCallers : callers[x] # "inside"
    /\ ExecuteStartStep
    /\ callers' = [callers EXCEPT ![c] = "inside"]
    /\ UNCHANGED <<now, cbVars, turnVars, sessVars, cacheVars, remoteUp, rcall>>

\* The `return` or `raise` leaves the `async with` block: the lock is
\* released and the caller has its result or exception.
L_Release(c) ==
    /\ callers[c] = "inside"
    /\ FinishStep
    /\ callers' = [callers EXCEPT ![c] = "outside"]
    /\ UNCHANGED <<now, cbVars, turnVars, sessVars, cacheVars, remoteUp, rcall>>

InitLock == InitPM

NextLock ==
    \/ \E p \in ProviderNames, en \in BOOLEAN : PM_Register(p, en)
    \/ \E c \in ExecCallers : L_Call(c)
    \/ \E c \in ExecCallers : L_Acquire(c)
    \/ PM_CallStep
    \/ \E c \in ExecCallers : L_Release(c)

SpecLock == InitLock /\ [][NextLock]_vars

LockHeld == \E c \in ExecCallers : callers[c] = "inside"

\* C26: the manager's lock is not held while a provider's execute call is
\* awaited, so that the provider calls of two concurrent execute calls can
\* be in flight together.
C26_LockFreeDuringProviderCall ==
    pmPc = "awaiting" => ~LockHeld

\* What holds instead: a provider call is awaited only by the holder of the
\* lock, and a second caller stays at the lock from the moment the first
\* has it until the first call has returned or raised.
CallsAreSerialized ==
    [][/\ pmPc = "awaiting" => LockHeld
       /\ \A c \in ExecCallers :
             (callers[c] = "waiting" /\ LockHeld /\ ~CallDone)
                 => callers'[c] = "waiting"]_vars


\* ------------------------------------------------- redis.py (SpecRedis)
\* The keys and the value the callers of the store use here.
StoreKeys == {Digest("qa"), Digest("qb")}

StoreValue == [present |-> TRUE, query |-> "qa", response |-> "r1",
               expires |-> DefaultTtl]

\* A call of the RedisManager came back: with `value`, or with the
\* exception of the client library.  `unavailable` says that the call went
\* to the remote store and got no answer.
StoreReturn(op, key, value) ==
    [op |-> op, key |-> key, raised |-> FALSE, value |-> value,
     unavailable |-> FALSE]

StoreRaise(op, key) ==
    [op |-> op, key |-> key, raised |-> TRUE, value |-> "",
     unavailable |-> TRUE]

Connected == rcall.op # "none"

\* The remote store goes away or comes back.
R_RemoteFlips ==
    /\ remoteUp' = ~remoteUp
    /\ UNCHANGED <<now, cbVars, pmVars, turnVars, sessVars, cacheVars,
                   callers, rcall>>

\* connect, lines 31-56, called once at startup (main.py line 235).
R_Connect ==
    /\ ~Connected
    /\ useFallback' = ~remoteUp
    /\ rcall' = [StoreReturn("connect", "", remoteUp) EXCEPT
                    !.unavailable = ~remoteUp]
    /\ UNCHANGED <<now, cbVars, pmVars, turnVars, cacheVars, callers,
                   remoteUp, store, conns, nTurns, nAccepts, lastUpd>>

\* The frame of a key/value or set operation.
StoreOpFrame ==
    UNCHANGED <<now, cbVars, pmVars, turnVars, sessVars, callers, remoteUp,
                emb, cres, nOps, cop>>

\* An operation that goes to the remote store while it does not answer:
\* the client library's exception leaves the method.
Unanswered == ~useFallback /\ ~remoteUp

\* get, lines 86-90
R_Get(k) ==
    /\ Connected
    /\ rcall' = IF Unanswered THEN StoreRaise("get", k)
                ELSE StoreReturn("get", k, RedisGet(resp[k], useFallback, now))
    /\ UNCHANGED <<resp, index>>
    /\ StoreOpFrame

\* set, lines 92-97
R_Set(k) ==
    /\ Connected
    /\ IF Unanswered
       THEN rcall' = StoreRaise("set", k) /\ resp' = resp
       ELSE /\ rcall' = StoreReturn("set", k, TRUE)
            /\ resp' = [resp EXCEPT ![k] = StoreValue]
    /\ UNCHANGED index
    /\ StoreOpFrame

\* delete, lines 99-107
R_Delete(k) ==
    /\ Connected
    /\ IF Unanswered
       THEN rcall' = StoreRaise("delete", k) /\ resp' = resp
       ELSE /\ rcall' = StoreReturn("delete", k,
                            RedisGet(resp[k], useFallback, now).present)
            /\ resp' = [resp EXCEPT ![k] = NoRecord]
    /\ UNCHANGED index
    /\ StoreOpFrame

\* sadd, lines 182-190
R_Sadd(k) ==
    /\ Connected
    /\ IF Unanswered
       THEN rcall' = StoreRaise("sadd", k) /\ index' = index
       ELSE /\ rcall' = StoreReturn("sadd", k, IF k \in index THEN 0 ELSE 1)
            /\ index' = index \cup {k}
    /\ UNCHANGED resp
    /\ StoreOpFrame

\* srem, lines 192-202
R_Srem(k) ==
    /\ Connected
    /\ IF Unanswered
       THEN rcall' = StoreRaise("srem", k) /\ index' = index
       ELSE /\ rcall' = StoreReturn("srem", k, IF k \in index THEN 1 ELSE 0)
            /\ index' = index \ {k}
    /\ UNCHANGED resp
    /\ StoreOpFrame

\* smembers, lines 204-208
R_Smembers ==
    /\ Connected
    /\ rcall' = IF Unanswered THEN StoreRaise("smembers", "")
                ELSE StoreReturn("smembers", "", index)
    /\ UNCHANGED <<resp, index>>
    /\ StoreOpFrame

InitRedis == InitPM

NextRedis ==
    \/ R_RemoteFlips
    \/ R_Connect
    \/ \E k \in StoreKeys : R_Get(k)
    \/ \E k \in StoreKeys : R_Set(k)
    \/ \E k \in StoreKeys : R_Delete(k)
    \/ \E k \in StoreKeys : R_Sadd(k)
    \/ \E k \in StoreKeys : R_Srem(k)
    \/ R_Smembers

SpecRedis == InitRedis /\ [][NextRedis]_vars

\* C27: when the remote store is unavailable, at the startup connect or
\* during a later get, set, delete or set-membership operation, the store
\* switches to the in-memory fallback and the failure does not reach the
\* caller of the operation.
C27_UnavailableFallsBack ==
    (Connected /\ rcall.unavailable) => (useFallback /\ ~rcall.raised)

\* What holds: a connect that finds the remote store unavailable switches
\* to the fallback and returns; after that no call raises.  No later call
\* changes _use_fallback.
OnlyConnectFallsBack ==
    /\ (Connected /\ rcall.op = "connect" /\ rcall.unavailable)
           => (useFallback /\ ~rcall.raised)
    /\ (Connected /\ useFallback) => ~rcall.raised
    /\ (Connected /\ rcall.raised) => ~useFallback


\* --------------------------------------- the breaker in HALF_OPEN (SpecCB)
\* record_failure is called in this step.
RecordsFailure ==
    /\ cbLast'.op = "record_failure"
    /\ cb'.consecutive_failures = cb.consecutive_failures + 1

\* is_available is called in this step, with the breaker as the last
\* operation left it.
ChecksAvailable ==
    /\ cbLast'.op = "is_available"
    /\ cbLast' # cbLast

\* C29: in HALF_OPEN any record_failure moves the breaker to OPEN and sets
\* state_changed_at to that moment, and an OPEN breaker answers false to
\* is_available, staying as it is, until a full recovery_timeout has
\* elapsed since state_changed_at.
C29_HalfOpenFailureReopens ==
    [][/\ (cb.state = "half_open" /\ RecordsFailure) =>
              /\ cb'.state = "open"
              /\ cb'.state_changed_at = now
              /\ ~IsAvailable(cb', cbCfg, now).ok
       /\ (cb.state = "open" /\ ChecksAvailable /\ ~TimeoutElapsed) =>
              /\ ~cbLast'.ret
              /\ cb' = cb]_vars

\* A probe admitted after the first recovery_timeout has failed: the
\* breaker is OPEN again, stamped with the time of the failure.
C29_Witness ==
    /\ cbLast.op = "record_failure" /\ cbLast.from = "half_open"
    /\ cb.state = "open"
    /\ cb.state_changed_at = now
    /\ now >= cbCfg.recovery_timeout

\* C30: once is_available has answered true with the breaker HALF_OPEN, a
\* further is_available answers false as long as neither record_success
\* nor record_failure has been called.
C30_OneProbeInHalfOpen ==
    [][(/\ cbLast.op = "is_available" /\ cbLast.ret
        /\ cb.state = "half_open"
        /\ ChecksAvailable)
           => ~cbLast'.ret]_vars

\* What holds: every is_available called on a HALF_OPEN breaker answers
\* true and leaves the breaker HALF_OPEN.
HalfOpenAdmitsEveryCheck ==
    (cbLast.op = "is_available" /\ cbLast.from = "half_open")
        => (cbLast.ret /\ cb.state = "half_open")


\* ------------------------------------------------ the turn's cache write
\* C31: a turn writes its response to the semantic cache only if it was
\* not interrupted, did not use web search and its full response is longer
\* than 20 characters; a turn answered from the cache and a turn that used
\* search never write to the cache.
C31_CacheWriteGuarded ==
    /\ turn.cached =>
          /\ ~sess.interrupted
          /\ ~turn.used_search
          /\ Chars(turn.full_response) > MinCacheChars
          /\ turn.ended = "done"
    /\ (turn.ended = "cache_hit" \/ turn.used_search) => ~turn.cached

\* A turn without search has ended uninterrupted with a response of more
\* than 20 characters and has written it to the cache.
C31_Witness ==
    /\ hpc = "recv" /\ turn.ended = "done" /\ turn.cached
    /\ turn.path = "stream"
    /\ ~turn.used_search
    /\ Chars(turn.full_response) > MinCacheChars


\* ------------------------------------------------- the cache's TTLs
\* C32: the index member written by set has the TTL of the two records:
\* once the TTL of an entry has elapsed its digest is no longer in the
\* index, so the index holds only digests of live entries.
C32_IndexHoldsLiveOnly ==
    \A d \in index : HasResponse(d) /\ HasEmbedding(d)

\* What holds: the passing of time removes nothing from the index; members
\* leave it only through invalidate and clear.
IndexNeverExpires ==
    [][now' # now => index' = index]_vars


\* ------------------------------------ SemanticCache.set: the TTL chosen
\* The words query texts are made of, the longest text, the ttl arguments
\* (86400 is what cache_warmer passes) and the number of calls.
TtlWords == {"Weather", "NEWS", "know", "what is", "define", "hello"}
MaxTextLen == 2
WarmTtl == 86400
ShortTtl == 60
\* ttl: Optional[int] = None
NoTtl == [given |-> FALSE]
TtlArgs ==
    {NoTtl} \cup {[given |-> TRUE, value |-> v] :
                      v \in {ShortTtl, TemporalTtl, WarmTtl}}
MaxTtlCalls == 1
Texts == UNION {[1..n -> TtlWords] : n \in 1..MaxTextLen}

\* hashlib.sha256(query.encode()).hexdigest()[:16] of a text: case is
\* kept, so texts that differ in case have different digests.
TextDigest(text) == <<"sha", text>>

\* set, lines 160-164: the TTL of the writes
ChosenTtl(text, ttl) ==
    IF ~ttl.given THEN ClassifyQueryType(text).ttl ELSE ttl.value

\* SemanticCache.set(query, response, ttl) over a store in which nothing
\* else runs: the two records with the TTL, then the index member.
CacheSetText(text, r, ttl) ==
    /\ nOps < MaxTtlCalls
    /\ LET d == TextDigest(text)
           t == ChosenTtl(text, ttl)
       IN /\ resp' = [resp EXCEPT ![d] =
                         [present |-> TRUE, query |-> text, response |-> r,
                          expires |-> now + t]]
          /\ emb' = [emb EXCEPT ![d] =
                        [present |-> TRUE, embedding |-> text,
                         expires |-> now + t]]
          /\ index' = index \cup {d}
          /\ cres' = [op |-> "set", query |-> text, response |-> r,
                      ttl_arg |-> ttl, at |-> now]
    /\ nOps' = nOps + 1
    /\ UNCHANGED <<now, useFallback, cop, notCache>>

InitTtl ==
    /\ now = 0
    /\ CBIdle /\ PMInit /\ TurnInit /\ IoInit
    /\ resp = [d \in {TextDigest(t) : t \in Texts} |-> NoRecord]
    /\ emb = [d \in {TextDigest(t) : t \in Texts} |-> NoRecord]
    /\ index = {} /\ cres = NoCall /\ nOps = 0
    /\ cop = [c \in CacheCallers |-> IdleCall]
    /\ useFallback \in BOOLEAN
    /\ store = [sid \in SessionIds |-> NoSession]
    /\ conns = [c \in ConnIds |-> ClosedConn]
    /\ nTurns = 0 /\ nAccepts = 0 /\ lastUpd = NoUpdate

NextTtl ==
    \/ \E text \in Texts, ttl \in TtlArgs : CacheSetText(text, "r1", ttl)
    \/ CacheTick

SpecTtl == InitTtl /\ [][NextTtl]_vars

\* The records a call of set has just written expire ttl seconds after it.
WrittenWithTtl(ttl) ==
    /\ resp[TextDigest(cres.query)].present
    /\ resp[TextDigest(cres.query)].expires = cres.at + ttl
    /\ emb[TextDigest(cres.query)].present
    /\ emb[TextDigest(cres.query)].expires = cres.at + ttl

\* C33: set without a ttl takes the TTL of the first matching rule in the
\* order temporal keyword (300 s), search keyword (900 s), knowledge
\* phrase (7200 s), default (3600 s), so a query of several classes gets
\* the TTL of the earliest; a ttl that is supplied is used unchanged.
C33_TtlByFirstMatchingRule ==
    cres.op = "set" =>
        LET text == cres.query
        IN /\ cres.ttl_arg.given => WrittenWithTtl(cres.ttl_arg.value)
           /\ cres.ttl_arg = NoTtl /\ AnyIn(TemporalWords, text)
                 => WrittenWithTtl(TemporalTtl)
           /\ cres.ttl_arg = NoTtl /\ ~AnyIn(TemporalWords, text)
                 /\ AnyIn(SearchWords, text)
                 => WrittenWithTtl(SearchTtl)
           /\ cres.ttl_arg = NoTtl /\ ~AnyIn(TemporalWords, text)
                 /\ ~AnyIn(SearchWords, text)
                 /\ AnyIn(KnowledgePhrases, text)
                 => WrittenWithTtl(KnowledgeTtl)
           /\ cres.ttl_arg = NoTtl /\ ~AnyIn(TemporalWords, text)
                 /\ ~AnyIn(SearchWords, text)
                 /\ ~AnyIn(KnowledgePhrases, text)
                 => WrittenWithTtl(DefaultTtl)

\* set without a ttl of a query that has a temporal keyword and a
\* knowledge phrase has written its records with 300 s.
C33_Witness ==
    /\ cres.op = "set" /\ cres.ttl_arg = NoTtl
    /\ AnyIn(TemporalWords, cres.query)
    /\ AnyIn(KnowledgePhrases, cres.query)
    /\ WrittenWithTtl(TemporalTtl)

SearchAndKnowledgeGetsSearchTtl ==
    /\ cres.op = "set" /\ cres.ttl_arg = NoTtl
    /\ AnyIn(SearchWords, cres.query)
    /\ AnyIn(KnowledgePhrases, cres.query)
    /\ WrittenWithTtl(SearchTtl)

ExplicitTtlOverridesRule ==
    /\ cres.op = "set" /\ cres.ttl_arg = [given |-> TRUE, value |-> WarmTtl]
    /\ AnyIn(TemporalWords, cres.query)
    /\ WrittenWithTtl(WarmTtl)


\* -------------------------- a connection without the decode helper
\* ffprobe is not there: AudioMetricsService.analyze scores no fragment
\* and _concatenate_audio_chunks returns None.  Four fragments have
\* accumulated; the client sends further ones.
FallbackFragments ==
    { Fragment(size, TRUE, "unscored") : size \in {400, 1200} }

FallbackAccumulations ==
    { acc \in [1..4 -> FallbackFragments] :
        \A i \in 1..3 : acc[i].size >= acc[i + 1].size }

InitFallback ==
    /\ now = TickStep /\ CBIdle /\ PMInit /\ SessInit /\ CacheInit /\ IoInit
    /\ \E acc \in FallbackAccumulations :
          sess = [SetState(NewSession, "listening") EXCEPT
                     !.audio_chunks = acc,
                     !.speech_detected = TRUE,
                     !.speech_chunk_count = Len(acc)]
    /\ inbox = <<>>
    /\ hpc = "recv"
    /\ turn = NoTurn
    /\ log = <<>>
    /\ nSent = 0

NextFallback ==
    \/ \E m \in FallbackFragments : hpc = "recv" /\ ClientSend(m)
    \/ H_ReceiveBytes
    \/ T_Concat("none")
    \/ \E o \in SttOutcomes : T_SttChunk(o)
    \/ T_Respond
    \/ \E tok \in Tokens : T_Token(tok)
    \/ \E o \in TtsOutcomes : T_Tts(o)
    \/ T_StreamEnd
    \/ \E o \in TtsOutcomes : T_TtsFinal(o)
    \/ T_Finalize
    \/ Tick

SpecFallback == InitFallback /\ [][NextFallback]_vars

\* The turn is on the per-fragment path.
OnFragmentPath == turn.path \in {"chunks", "direct"}

\* What the concatenated-audio path does to the cache at the end of a turn
\* like this one.
CachedAsOnNormalPath ==
    turn.cached = (/\ ~sess.interrupted
                   /\ ~turn.used_search
                   /\ Chars(turn.full_response) > MinCacheChars)

\* C34: without the decode helper every valid fragment counts as speech,
\* the turn starts exactly when the sixth fragment has accumulated, the STT
\* manager is called once for each accumulated fragment, and the LLM/TTS
\* part has the effects of the normal path on history, cache and metrics.
C34_FallbackTurnAsNormal ==
    /\ sess.audio_chunks # <<>> =>
          /\ sess.speech_detected
          /\ sess.speech_chunk_count = Len(sess.audio_chunks)
          /\ Len(sess.audio_chunks) < MaxChunksFallback
    /\ OnFragmentPath => Len(turn.chunks) = MaxChunksFallback
    /\ hpc = "respond" => turn.stt_calls = Len(turn.chunks)
    /\ (TurnReturned /\ turn.ended = "done") =>
          /\ HistoryGrowth = 2
          /\ turn.metrics = "success"
          /\ CachedAsOnNormalPath

\* What holds of segmentation without the decode helper.
FallbackSegmentation ==
    /\ sess.audio_chunks # <<>> =>
          /\ sess.speech_detected
          /\ sess.speech_chunk_count = Len(sess.audio_chunks)
          /\ Len(sess.audio_chunks) < MaxChunksFallback
    /\ OnFragmentPath => Len(turn.chunks) = MaxChunksFallback

\* What holds of the per-fragment path: STT is called for the fragments
\* of 1000 bytes and more, and the turn writes nothing to the cache.
FragmentPathSkipsAndNeverCaches ==
    /\ hpc = "respond" =>
          turn.stt_calls =
              Cardinality({i \in 1..Len(turn.chunks) :
                              turn.chunks[i].size >= MinAudioBytes})
    /\ OnFragmentPath => ~turn.cached

FragmentTurnDoneUncached ==
    /\ TurnReturned /\ turn.ended = "done" /\ turn.path = "direct"
    /\ \A i \in 1..Len(turn.chunks) : turn.chunks[i].size >= MinAudioBytes
    /\ turn.stt_calls = MaxChunksFallback
    /\ ~sess.interrupted
    /\ Chars(turn.full_response) > MinCacheChars
    /\ ~turn.cached


\* ------------------------------- segmentation by energy (normal mode)
\* The fragments of a client whose audio is scored, each with the time of
\* its arrival; one second per tick.
MaxVadMessages == 5
MaxVadTime == 7
VadTickStep == 1

VadFragment(valid, analysis, t) ==
    [kind |-> "bytes", size |-> 1200, valid |-> valid,
     analysis |-> analysis, at |-> t]

VadFragments(t) ==
    { VadFragment(TRUE, "speech", t), VadFragment(TRUE, "silence", t),
      VadFragment(FALSE, "speech", t) }

\* The client sends a fragment while the handler waits in receive().
V_Send(m) ==
    /\ hpc = "recv"
    /\ inbox = <<>>
    /\ nSent < MaxVadMessages
    /\ inbox' = <<m>>
    /\ nSent' = nSent + 1
    /\ log' = log
    /\ UNCHANGED <<now, sess, hpc, turn, notTurn>>

\* Time passes while nothing waits to be received.
V_Tick ==
    /\ inbox = <<>>
    /\ now + VadTickStep <= MaxVadTime
    /\ now' = now + VadTickStep
    /\ UNCHANGED <<cbVars, pmVars, turnVars, sessVars, cacheVars, ioVars>>

InitVad ==
    /\ now = VadTickStep
    /\ CBIdle /\ PMInit /\ TurnInit /\ SessInit /\ CacheInit /\ IoInit

\* The turns end at once: the concatenated audio is too short, or STT
\* finds no words in it.
NextVad ==
    \/ \E m \in VadFragments(now) : V_Send(m)
    \/ H_ReceiveBytes
    \/ T_Concat("short")
    \/ T_Concat("audio")
    \/ T_Stt("empty")
    \/ V_Tick

SpecVad == InitVad /\ [][NextVad]_vars

\* The index at which the unbroken run of silence that ends a sequence of
\* fragments starts; past the end when the last fragment is not silent.
RECURSIVE SilenceRunStart(_)
SilenceRunStart(chunks) ==
    IF chunks = <<>> \/ chunks[Len(chunks)].analysis # "silence"
    THEN Len(chunks) + 1
    ELSE SilenceRunStart(SubSeq(chunks, 1, Len(chunks) - 1))

HasSpeech(chunks) == \E i \in 1..Len(chunks) : chunks[i].analysis = "speech"

\* The receipt of a fragment starts a turn.
EndOfTurnFires == hpc = "recv" /\ hpc' = "concat"

SilenceTimerIsRunStart ==
    /\ sess.silence_start_time # 0 =>
          LET start == SilenceRunStart(sess.audio_chunks) IN
          /\ start <= Len(sess.audio_chunks)
          /\ HasSpeech(sess.audio_chunks)
          /\ sess.silence_start_time = sess.audio_chunks[start].at
    /\ (sess.audio_chunks # <<>> /\ ~HasSpeech(sess.audio_chunks))
          => ~sess.speech_detected

LongSilenceNoTurn ==
    /\ hpc = "recv" /\ inbox = <<>>
    /\ Len(sess.audio_chunks) = 3
    /\ ~HasSpeech(sess.audio_chunks)
    /\ 2 * (sess.audio_chunks[3].at - sess.audio_chunks[1].at)
          >= SilenceDurationHalves


\* ------------------------------------- connections of several users
NextOwner ==
    \/ \E c \in ConnIds, sid \in SessionIds, token \in AuthTokens :
          C_AcceptAs(c, sid, token)
    \/ \E c \in ConnIds, sid \in SessionIds : C_Start(c, sid)
    \/ \E c \in ConnIds : C_TurnStart(c)
    \/ \E c \in ConnIds : C_TurnEnd(c)
    \/ \E c \in ConnIds : C_Disconnect(c)
    \/ \E c \in ConnIds, sid \in SessionIds : U_Get(c, sid)
    \/ \E c \in ConnIds, sid \in SessionIds : U_Set(c, sid)

SpecOwner == InitSess /\ [][NextOwner]_vars

\* The stored session of sid belongs to a registered user other than the
\* one connection c was authenticated as.
ForeignSession(c, sid) ==
    /\ store[sid].present
    /\ store[sid].user_id \in {"A", "B"}
    /\ store[sid].user_id # conns[c].user_id

\* C36: a connection on a session id whose stored session belongs to
\* another user is not given that session's conversation history and
\* writes nothing into its record.
C36_OwnerOnlyAccess ==
    [][\A c \in ConnIds, sid \in SessionIds :
          /\ (/\ conns[c].pc = "accepted" /\ conns'[c].pc = "starting"
              /\ ForeignSession(c, sid))
                => conns'[c].conversation_history = <<>>
          /\ (/\ conns[c].read.got /\ ~conns'[c].read.got
              /\ ForeignSession(c, sid))
                => store'[sid] = store[sid]
      ]_vars

\* What holds: the owner of a stored session is the user of the
\* connection that created it, whoever reads and writes it afterwards.
OwnerNeverChanges ==
    [][\A sid \in SessionIds :
          store[sid].present /\ store'[sid].present
              => store'[sid].user_id = store[sid].user_id]_vars

\* User B's connection runs on the history of user A's session.
ForeignHistoryGiven ==
    \E c \in ConnIds, sid \in SessionIds :
        /\ conns[c].pc = "open"
        /\ conns[c].user_id = "B"
        /\ store[sid].present /\ store[sid].user_id = "A"
        /\ conns[c].conversation_history # <<>>
        /\ conns[c].conversation_history = store[sid].conversation_history

\* A connection whose token did not verify is open on user A's session.
UnauthenticatedOpenOnSession ==
    \E c \in ConnIds, sid \in SessionIds :
        /\ conns[c].pc = "open"
        /\ conns[c].user_id = None
        /\ store[sid].present /\ store[sid].user_id = "A"


\* --------------------------------------------- status snapshots
\* CircuitBreaker.to_dict: the dictionary and the breaker after the call.
\* "state" is read from _state, then "is_available" is read through the
\* property, which moves an OPEN breaker whose timeout has passed.
ToDict(c, cfg, t) ==
    LET r == IsAvailable(c, cfg, t) IN
    [dict |-> [state |-> c.state, is_available |-> r.ok,
               consecutive_failures |-> c.consecutive_failures],
     c |-> r.c]

CB_ToDict ==
    LET r == ToDict(cb, cbCfg, now) IN
    /\ cb' = r.c
    /\ cbLast' = [op |-> "to_dict", ret |-> r.dict.is_available,
                  reported |-> r.dict.state, from |-> cb.state, at |-> now]
    /\ closedRun' = 0
    /\ UNCHANGED <<now, cbCfg, notCB>>

NextSnapshot ==
    \/ CB_IsAvailable
    \/ CB_RecordSuccess
    \/ CB_RecordFailure
    \/ CB_Reset
    \/ CB_ToDict
    \/ Tick

SpecSnapshot == InitCB /\ [][NextSnapshot]_vars

\* A step that is a call of to_dict.
TakesSnapshot == cbLast' # cbLast /\ cbLast'.op = "to_dict"

\* C37: a status snapshot changes no circuit (state, counters and
\* state_changed_at are as before), so a breaker goes from OPEN to
\* HALF_OPEN only in a call that asks whether it may proceed.
C37_SnapshotChangesNoCircuit ==
    [][/\ TakesSnapshot => cb' = cb
       /\ (cb.state = "open" /\ cb'.state = "half_open")
             => cbLast'.op = "is_available"
      ]_vars

\* What holds: a snapshot changes the breaker exactly when it is OPEN and
\* its recovery timeout has passed; it then reports state "open" with
\* is_available true and leaves the breaker HALF_OPEN.
SnapshotMovesOnlyExpiredOpen ==
    [][TakesSnapshot =>
          IF cb.state = "open"
             /\ now - cb.state_changed_at >= cbCfg.recovery_timeout
          THEN /\ cb'.state = "half_open"
               /\ cb'.state_changed_at = now
               /\ cbLast'.reported = "open" /\ cbLast'.ret
          ELSE cb' = cb
      ]_vars

SnapshotOpenedProbe ==
    /\ cbLast.op = "to_dict" /\ cbLast.from = "open"
    /\ cb.state = "half_open"


\* ------------------------------------------------ metrics.py counters
\* The counters of a MetricsCollector that has seen the requests of this
\* turn only: start_request adds one to total_requests and an entry to
\* _in_flight; end_request pops the entry and adds one to
\* successful_requests or failed_requests; the empty-transcript branch pops
\* the entry and touches no counter.
CollectorOf(t) ==
    [total_requests |-> IF t.metrics = "none" THEN 0 ELSE 1,
     successful_requests |-> IF t.metrics = "success" THEN 1 ELSE 0,
     failed_requests |-> IF t.metrics \in {"failed", "interrupted"}
                         THEN 1 ELSE 0,
     in_flight |-> IF t.metrics = "in_flight" THEN 1 ELSE 0]

NoRequestLeftInFlight ==
    LET m == CollectorOf(turn) IN
    /\ hpc = "recv" => m.in_flight = 0
    /\ turn.metrics # "dropped" =>
          m.total_requests =
              m.successful_requests + m.failed_requests + m.in_flight
    /\ turn.metrics = "dropped" => turn.ended = "empty"


\* ------------------------------ what execute leaves as it found it
\* The step in which a call of execute raises, and the step in which it
\* returns a result.
CallRaises == pmPc # "raised" /\ pmPc' = "raised"
CallReturns == pmPc # "returned" /\ pmPc' = "returned"

\* C39: a call that raises AllProvidersFailedError leaves current_provider
\* and fallback_count as they were when it began, and so does a call that
\* succeeds on the provider that was current; the current provider, once
\* set by the first registration, changes only in the return of a
\* successful call of another provider.
C39_CurrentChangesOnlyOnSwitch ==
    [][/\ CallRaises =>
             /\ current' = pmPre.current
             /\ fallback_count' = pmPre.fallback_count
       /\ (CallReturns /\ pmResult'.provider = pmPre.current) =>
             /\ current' = pmPre.current
             /\ fallback_count' = pmPre.fallback_count
       /\ (current' # current /\ current # None) =>
             /\ CallReturns
             /\ pmResult'.provider = current'
       /\ (current' # current /\ current = None) =>
             /\ providers = <<>>
             /\ providers' = <<current'>>
             /\ fallback_count' = fallback_count
      ]_vars

\* A call has raised with a current provider set and a fallback counted
\* before it.
C39_Witness ==
    /\ pmPc = "raised"
    /\ Len(invoked) >= 2
    /\ pmPre.current # None
    /\ pmPre.fallback_count > 0
    /\ current = pmPre.current
    /\ fallback_count = pmPre.fallback_count

\* A call has returned the result of the provider that was current, after
\* an earlier switch.
SuccessOnCurrentAfterSwitch ==
    /\ pmPc = "returned"
    /\ pmResult.provider = pmPre.current
    /\ pmPre.fallback_count > 0
    /\ current = pmPre.current
    /\ fallback_count = pmPre.fallback_count


\* ------------------------------------ what a turn gives to TTS
\* One turn, by either path, whose LLM streams words, sentence ends,
\* spaces and newlines.
SpeechTokens == {"word", ".", " ", "\n"}

NextSpeech ==
    \/ hpc = "recv" /\ nSent = 0 /\ ClientSend(Fragment(12000, TRUE, "speech"))
    \/ H_ReceiveBytes
    \/ \E c \in {"audio", "none"} : T_Concat(c)
    \/ T_Stt("text")
    \/ T_SttChunk("text")
    \/ T_Respond
    \/ T_Cache(FALSE, "audio")
    \/ T_Search(FALSE)
    \/ \E tok \in SpeechTokens : T_Token(tok)
    \/ \E o \in TtsOutcomes : T_Tts(o)
    \/ T_StreamEnd
    \/ \E o \in TtsOutcomes : T_TtsFinal(o)
    \/ T_Finalize

SpecSpeech == InitTurn /\ [][NextSpeech]_vars

RECURSIVE Flatten(_)
Flatten(texts) ==
    IF texts = <<>> THEN <<>> ELSE Head(texts) \o Flatten(Tail(texts))

IsNotSpace(tok) == tok \notin Whitespace
NonSpace(text) == SelectSeq(text, IsNotSpace)

\* C40: in a turn that is not interrupted the texts given to TTS, in
\* order, are the tokens of the full response, each once, but for
\* whitespace at the ends of the texts, the remaining buffer after the
\* stream included; and the state is speaking when TTS is called.
C40_TtsTextsCoverResponse ==
    /\ (hpc = "finalize" /\ ~sess.interrupted) =>
          NonSpace(Flatten(turn.tts_texts)) = NonSpace(turn.full_response)
    /\ (hpc = "llm" /\ ~sess.interrupted) =>
          NonSpace(Flatten(turn.tts_texts) \o turn.sentence_buffer)
              = NonSpace(turn.full_response)
    /\ \A i \in 1..Len(turn.tts_texts) :
          /\ turn.tts_texts[i] # <<>>
          /\ Strip(turn.tts_texts[i]) = turn.tts_texts[i]
    /\ hpc \in {"tts", "tts_final"} =>
          /\ sess.state = "speaking"
          /\ turn.tts_texts # <<>>

\* A sentence went to TTS during the stream and the rest of the response
\* after it, the rest being more than whitespace.
C40_Witness ==
    /\ hpc = "finalize" /\ ~sess.interrupted
    /\ Len(turn.tts_texts) = 2
    /\ turn.sentence_buffer # <<>>
    /\ Len(turn.full_response) = MaxTokens

\* Whitespace was trimmed: the texts given to TTS are shorter than the
\* response.
TrimmedTextSpoken ==
    /\ hpc = "finalize" /\ ~sess.interrupted
    /\ turn.tts_texts # <<>>
    /\ Len(Flatten(turn.tts_texts)) < Len(turn.full_response)

\* A response of whitespace only gives TTS nothing.
BlankResponseUnspoken ==
    /\ hpc = "finalize" /\ turn.full_response # <<>>
    /\ turn.tts_texts = <<>>

=============================================================================
